---- MODULE Spec2Model ----
(***************************************************************************)
(* Model of the AI job form filler browser extension:                      *)
(*   - the in-page agent (content script, class JobFormDetector): its      *)
(*     session life cycle, keep-alive, mutation-driven re-detection and    *)
(*     fill pass;                                                          *)
(*   - sendMessageWithRetry of the coordinator (background.js) and of the  *)
(*     popup (popup.js).                                                   *)
(***************************************************************************)
EXTENDS Naturals, Integers, Sequences, FiniteSets, TLC

(***************************************************************************)
(* Bounds of the model.                                                    *)
(***************************************************************************)
MaxInFlight == 2      \* pings awaiting their answer at the same time
MaxTimers == 2        \* pending setTimeout(detectJobForms, 500) timers
MaxGen == 2           \* element generations per field (re-renders)
MaxCalls == 3         \* calls of handleContextInvalidation explored
MaxPassFields == 4    \* fields one fill pass may count (two field maps)
MaxRetriesBound == 3  \* largest maxRetries argument explored
MinInputs == 2        \* fewest input controls of a document
MaxInputs == 5        \* most input controls of a document
MaxPasses == 2        \* discovery passes run on one document
MinElements == 2      \* fewest input controls of a tree of elements
MaxElements == 3      \* most input controls of a tree of elements
MinOptions == 2       \* fewest valid options of a select element
MaxOptions == 3       \* most demographic options of a select element

(***************************************************************************)
(* Error messages.  The code classifies an error by the phrases its        *)
(* message includes, so a message is modelled by the set of signature      *)
(* phrases it contains and String.includes by membership.                  *)
(***************************************************************************)
SigContextInvalidated == "context invalidated"
SigExtensionContextInvalidated == "Extension context invalidated"
SigCouldNotEstablish == "Could not establish connection"
SigPortClosed == "The message port closed"
SigReceivingEnd == "Receiving end does not exist"
SigCannotAccess == "Cannot access"

\* "Extension context invalidated."
ErrContextInvalidated == {SigExtensionContextInvalidated, SigContextInvalidated}
\* "Could not establish connection. Receiving end does not exist."
ErrNoReceiver == {SigCouldNotEstablish, SigReceivingEnd}
\* "The message port closed before a response was received."
ErrPortClosed == {SigPortClosed}
\* a timeout or any other transient failure
ErrTimeout == {}
\* "Cannot access contents of the page ..."  (chrome.scripting.executeScript)
ErrCannotAccess == {SigCannotAccess}

NoError == {"<none>"}

ErrorMessages == {ErrContextInvalidated, ErrNoReceiver, ErrPortClosed, ErrTimeout}

Includes(message, phrase) == phrase \in message

(***************************************************************************)
(* The page.                                                               *)
(***************************************************************************)
Fields == {"firstName", "email"}
FieldOrder == <<"firstName", "email">>

VARIABLES
    agent,          \* fields of the JobFormDetector object
    initPc,         \* position of init(): "awaitRegistration", "done", "failed"
    forms,          \* this.forms.length
    formFields,     \* this.formFields: field -> element captured (0: none)
    dom,            \* the document: indicator, notice, visibility, elements
    isGreenhouseOrIframe, \* known-hostile host or embedded frame
    runtimeAlive,   \* chrome.runtime?.id is defined
    pingInFlight,   \* pings sent to the coordinator and not yet answered
    redetectTimers, \* pending setTimeout(() => this.detectJobForms(), 500)
    lastError,      \* error last handed to the ping catch ("ping") or to
                    \* the error listener ("event")
    invalidationCalls, \* calls of handleContextInvalidation so far
    fill,           \* the fill pass in progress (fillFormWithData)
    retry,          \* one sendMessageWithRetry call
    document,       \* the document a discovery pass scans
    detection,      \* this.forms and this.formFields of the discovery passes
    page,           \* the elements getElementSelector is called on
    resolution,     \* the selector of an element and what it matches
    dropdown,       \* a select element and the fillSelectField call on it
    textFill,       \* the controls of a page and a fillTextField call on one
    classified,     \* the text signals of an input and what identifyField says
    popup,          \* the popup: its two buttons and its detectForms call
    feedback,       \* the popup's feedbackCache and its provideFeedback calls
    coordinator     \* the background script: tabStatus and the tab it serves

vars == <<agent, initPc, forms, formFields, dom, isGreenhouseOrIframe,
          runtimeAlive, pingInFlight, redetectTimers, lastError,
          invalidationCalls, fill, retry, document, detection, page,
          resolution, dropdown, textFill, classified, popup, feedback,
          coordinator>>

\* the variables of the discovery passes, of the selector resolver and of
\* the select filling
discoveryVars == <<document, detection>>

resolverVars == <<page, resolution>>

selectVars == <<dropdown>>

\* the variables of the text writer, of the classifier, of the popup and of
\* the background script
componentVars == <<textFill, classified, popup, feedback, coordinator>>

pureVars == <<discoveryVars, resolverVars, selectVars, componentVars>>

sessionVars == <<agent, initPc, forms, formFields, dom, isGreenhouseOrIframe,
                 runtimeAlive, pingInFlight, redetectTimers, lastError,
                 invalidationCalls>>

(***************************************************************************)
(* constructor                                                             *)
(***************************************************************************)
NewAgent ==
    [isInitialized |-> FALSE,
     messageListenerActive |-> FALSE,
     contextInvalidated |-> FALSE,
     mutationObserver |-> "undefined",
     pingInterval |-> "undefined"]

\* no fill pass has run yet
\* fillFormWithData has returned nothing yet
NoOutcome ==
    [kind |-> "none", success |-> FALSE, filledFields |-> 0, totalFields |-> 0,
     accuracy |-> 0]

IdleFill ==
    [pc |-> "idle", fields |-> [f \in Fields |-> 0], pending |-> FALSE,
     formData |-> {}, index |-> 1, filledFields |-> 0, totalFields |-> 0,
     written |-> 0, writtenField |-> "none", threw |-> {},
     telemetry |-> "none", outcome |-> NoOutcome]

IdleRetry ==
    [pc |-> "idle", caller |-> "none", maxRetries |-> 0, i |-> 0,
     attempts |-> 0, injections |-> 0, lastError |-> NoError,
     lastWait |-> 0, thrown |-> NoError]

\* no document has been handed to a discovery pass
NoDocument ==
    [url |-> <<>>, hasForm |-> FALSE, formClass |-> <<>>, formText |-> <<>>,
     formAction |-> <<>>, hasContainer |-> FALSE, containerClass |-> <<>>,
     indicator |-> FALSE, inputs |-> <<>>]

NoDetection ==
    [forms |-> <<>>, formFields |-> <<>>, passes |-> 0, mutated |-> FALSE,
     rescanned |-> FALSE]

\* getElementSelector has not been called
NoResolution ==
    [element |-> 0, strategy |-> "none", selector |-> <<>>, matches |-> {}]

\* fillSelectField has no select to fill
NoTextFill == [pc |-> "none"]

NoClassified == [pc |-> "none"]

NoPopup == [pc |-> "none"]

NoFeedback == [pc |-> "none"]

NoCoordinator == [pc |-> "none"]

\* the text writer, the classifier, the popup and the background script
\* untouched
ComponentsIdle ==
    /\ textFill = NoTextFill
    /\ classified = NoClassified
    /\ popup = NoPopup
    /\ feedback = NoFeedback
    /\ coordinator = NoCoordinator

NoDropdown ==
    [element |-> [options |-> <<>>, selectedIndex |-> 0], value |-> <<>>,
     skipped |-> FALSE, matchedOption |-> 0, pc |-> "none"]

Init ==
    /\ agent = NewAgent
    /\ initPc = "awaitRegistration"
    /\ forms = 0
    /\ formFields = [f \in Fields |-> 0]
    /\ dom \in [indicator : {FALSE}, contextError : {FALSE},
                visible : BOOLEAN, jobForm : BOOLEAN,
                elems : {[f \in Fields |-> 1]}, filled : {{}},
                observed : {{}}]
    /\ isGreenhouseOrIframe \in BOOLEAN
    /\ runtimeAlive = TRUE
    /\ pingInFlight = 0
    /\ redetectTimers = 0
    /\ lastError = [source |-> "none", message |-> NoError]
    /\ invalidationCalls = 0
    /\ fill = IdleFill
    /\ retry = IdleRetry
    /\ document = NoDocument
    /\ detection = NoDetection
    /\ page = <<>>
    /\ resolution = NoResolution
    /\ dropdown = NoDropdown
    /\ ComponentsIdle

\* the session untouched: the state of the specifications of the pure
\* parts of the agent, which take no step of the session
QuiescentSession ==
    /\ agent = NewAgent
    /\ initPc = "awaitRegistration"
    /\ forms = 0
    /\ formFields = [f \in Fields |-> 0]
    /\ dom = [indicator |-> FALSE, contextError |-> FALSE, visible |-> TRUE,
              jobForm |-> FALSE, elems |-> [f \in Fields |-> 1], filled |-> {},
              observed |-> {}]
    /\ isGreenhouseOrIframe = FALSE
    /\ runtimeAlive = TRUE
    /\ pingInFlight = 0
    /\ redetectTimers = 0
    /\ lastError = [source |-> "none", message |-> NoError]
    /\ invalidationCalls = 0
    /\ fill = IdleFill
    /\ retry = IdleRetry

(***************************************************************************)
(* updateFormIndicator: the indicator is removed, and added again when     *)
(* forms were detected.                                                    *)
(***************************************************************************)
UpdateFormIndicator(d, formsLength) ==
    [d EXCEPT !.indicator = (formsLength > 0)]

(***************************************************************************)
(* detectJobForms: clears forms and formFields, rebuilds them from the     *)
(* live document (mapFormFields captures the element of every field) and   *)
(* updates the indicator.                                                  *)
(***************************************************************************)
DetectedForms(d) == IF d.jobForm THEN 1 ELSE 0

MapFormFields(d) == [f \in Fields |-> IF d.jobForm THEN d.elems[f] ELSE 0]

\* a fill pass in progress iterates this.formFields.entries(): clear() and
\* set() leave the new entry ahead of the iterator, which visits it next
IteratorAfterDetect(it, d) ==
    IF it.pc \in {"next", "delay"}
    THEN [it EXCEPT !.pending = (DetectedForms(d) > 0)]
    ELSE it

\* the node updateFormIndicator appends to document.body: a div whose only
\* child is a styled div (its innerHTML is set before it is attached)
IndicatorNode == [tagName |-> "DIV", containsForm |-> FALSE, containsInput |-> FALSE]

\* the wrapper of a field the host page renders: it holds an input
FieldNode == [tagName |-> "DIV", containsForm |-> FALSE, containsInput |-> TRUE]

AddedByIndicator(formsLength) == IF formsLength > 0 THEN {IndicatorNode} ELSE {}

\* mutant: any added element asks for a new detection
ShouldRedetectAnyNode(addedNodes) == addedNodes # {}

\* the MutationObserver callback of setupDynamicDetection: an added element
\* that is a form, or holds a form, or holds an input, textarea or select
ShouldRedetect(addedNodes) ==
    \E node \in addedNodes :
        \/ node.tagName = "FORM"
        \/ node.containsForm
        \/ node.containsInput

\* setTimeout(() => this.detectJobForms(), 500)
ScheduleRedetect(timers) == timers + 1

\* the callback runs for the nodes added while the observer is attached
ObserverCallback(a, timers, addedNodes) ==
    IF a.mutationObserver = "observing" /\ ShouldRedetect(addedNodes)
    THEN ScheduleRedetect(timers)
    ELSE timers

\* the added nodes of the batch last handed to the callback
Observed(a, d, addedNodes) ==
    IF a.mutationObserver = "observing" /\ addedNodes # {}
    THEN [d EXCEPT !.observed = addedNodes]
    ELSE d

\* timers: the timers pending when the pass starts
DetectJobForms(timers) ==
    /\ forms' = DetectedForms(dom)
    /\ formFields' = MapFormFields(dom)
    /\ dom' = Observed(agent, UpdateFormIndicator(dom, DetectedForms(dom)),
                       AddedByIndicator(DetectedForms(dom)))
    /\ fill' = IteratorAfterDetect(fill, dom)
    /\ redetectTimers' =
           ObserverCallback(agent, timers, AddedByIndicator(DetectedForms(dom)))

(***************************************************************************)
(* handleContextInvalidation with showContextInvalidationMessage.          *)
(* Returns the agent and the document after the call.                      *)
(***************************************************************************)
ShowContextInvalidationMessage(d) ==
    IF d.contextError THEN d ELSE [d EXCEPT !.contextError = TRUE]

InvalidationTeardown(a, d) ==
    [a |-> [a EXCEPT !.isInitialized = FALSE,
                     !.messageListenerActive = FALSE,
                     !.contextInvalidated = TRUE,
                     !.mutationObserver =
                         IF a.mutationObserver = "observing" THEN "null" ELSE @,
                     !.pingInterval =
                         IF a.pingInterval = "active" THEN "null" ELSE @],
     d |-> ShowContextInvalidationMessage(
               [d EXCEPT !.indicator = FALSE, !.observed = {}])]

\* mutant: the "prevent multiple calls" guard is missing
HandleContextInvalidationRepeated(a, d) == InvalidationTeardown(a, d)

HandleContextInvalidation(a, d) ==
    IF a.contextInvalidated
    THEN [a |-> a, d |-> d]
    ELSE InvalidationTeardown(a, d)

(***************************************************************************)
(* init(): the constructor has called init(), which is suspended at        *)
(* await chrome.runtime.sendMessage({action: 'contentScriptReady'}).       *)
(***************************************************************************)
SetupMessageListener(a) ==
    IF a.messageListenerActive THEN a
    ELSE [a EXCEPT !.messageListenerActive = TRUE]

SetupDynamicDetection(a) == [a EXCEPT !.mutationObserver = "observing"]

SetupKeepAlive(a) == [a EXCEPT !.pingInterval = "active"]

\* the registration is answered: the rest of the try block runs
RegistrationResolves ==
    /\ initPc = "awaitRegistration"
    /\ runtimeAlive
    /\ DetectJobForms(redetectTimers)
    /\ agent' = [SetupKeepAlive(SetupDynamicDetection(SetupMessageListener(agent)))
                    EXCEPT !.isInitialized = TRUE]
    /\ initPc' = "done"
    /\ UNCHANGED <<isGreenhouseOrIframe, runtimeAlive, pingInFlight,
                   lastError, invalidationCalls, retry, pureVars>>

\* the registration fails: the catch block only logs
RegistrationRejects ==
    /\ initPc = "awaitRegistration"
    /\ initPc' = "failed"
    /\ UNCHANGED <<agent, forms, formFields, dom, isGreenhouseOrIframe,
                   runtimeAlive, pingInFlight, redetectTimers, lastError,
                   invalidationCalls,
                   fill, retry, pureVars>>

(***************************************************************************)
(* setupKeepAlive: the interval callback.                                  *)
(***************************************************************************)
\* mutant: no visibility check at all
KeepAliveSendsAnyVisibility(a, alive, hostile, visible) ==
    a.isInitialized /\ alive /\ ~a.contextInvalidated

\* mutant: the contextInvalidated flag is not consulted
KeepAliveSendsIgnoringFlag(a, alive, hostile, visible) ==
    /\ a.isInitialized /\ alive
    /\ ~(hostile /\ ~visible)

\* TRUE when a tick gets as far as chrome.runtime.sendMessage({action:'ping'})
KeepAliveSends(a, alive, hostile, visible) ==
    /\ ~(~a.isInitialized \/ ~alive \/ a.contextInvalidated)
    /\ ~(hostile /\ ~visible)

\* a tick of the interval that sends a ping (a tick that returns early
\* changes nothing)
PingTick ==
    /\ agent.pingInterval = "active"
    /\ KeepAliveSends(agent, runtimeAlive, isGreenhouseOrIframe, dom.visible)
    /\ pingInFlight < MaxInFlight
    /\ pingInFlight' = pingInFlight + 1
    /\ UNCHANGED <<agent, initPc, forms, formFields, dom, isGreenhouseOrIframe,
                   runtimeAlive, redetectTimers, lastError, invalidationCalls,
                   fill, retry, pureVars>>

PingSucceeds ==
    /\ pingInFlight > 0
    /\ runtimeAlive
    /\ pingInFlight' = pingInFlight - 1
    /\ UNCHANGED <<agent, initPc, forms, formFields, dom, isGreenhouseOrIframe,
                   runtimeAlive, redetectTimers, lastError, invalidationCalls,
                   fill, retry, pureVars>>

\* mutant: every failed ping is taken for a teardown
PingErrorIsTerminalAlways(message) == TRUE

\* the test of the catch block of the interval callback
PingErrorIsTerminal(message) ==
    \/ Includes(message, SigContextInvalidated)
    \/ Includes(message, SigExtensionContextInvalidated)
    \/ Includes(message, SigCouldNotEstablish)
    \/ Includes(message, SigPortClosed)

\* the catch block of the interval callback
PingFails(message) ==
    /\ pingInFlight > 0
    /\ pingInFlight' = pingInFlight - 1
    /\ lastError' = [source |-> "ping", message |-> message]
    /\ IF PingErrorIsTerminal(message)
       THEN LET r == HandleContextInvalidation(agent, dom)
            IN /\ invalidationCalls < MaxCalls
               /\ invalidationCalls' = invalidationCalls + 1
               /\ agent' = [r.a EXCEPT !.pingInterval =
                               IF @ = "active" THEN "null" ELSE @]
               /\ dom' = r.d
       ELSE UNCHANGED <<agent, dom, invalidationCalls>>
    /\ UNCHANGED <<initPc, forms, formFields, isGreenhouseOrIframe,
                   runtimeAlive, redetectTimers, fill, retry, pureVars>>

(***************************************************************************)
(* The global error handler of the content script.                         *)
(***************************************************************************)
GlobalErrorIsTerminal(message) ==
    \/ Includes(message, SigContextInvalidated)
    \/ Includes(message, SigExtensionContextInvalidated)
    \/ Includes(message, SigCouldNotEstablish)

GlobalErrorEvent(message) ==
    /\ lastError' = [source |-> "event", message |-> message]
    /\ IF GlobalErrorIsTerminal(message)
       THEN LET r == HandleContextInvalidation(agent, dom)
            IN /\ invalidationCalls < MaxCalls
               /\ invalidationCalls' = invalidationCalls + 1
               /\ agent' = r.a
               /\ dom' = r.d
       ELSE UNCHANGED <<agent, dom, invalidationCalls>>
    /\ UNCHANGED <<initPc, forms, formFields, isGreenhouseOrIframe,
                   runtimeAlive, pingInFlight, redetectTimers, fill, retry, pureVars>>

\* the 10 s timer of showContextInvalidationMessage removes the notice
NoticeAutoRemove ==
    /\ dom.contextError
    /\ dom' = [dom EXCEPT !.contextError = FALSE]
    /\ UNCHANGED <<agent, initPc, forms, formFields, isGreenhouseOrIframe,
                   runtimeAlive, pingInFlight, redetectTimers, lastError,
                   invalidationCalls,
                   fill, retry, pureVars>>

\* the extension is reloaded, updated or disabled
RuntimeTeardown ==
    /\ runtimeAlive
    /\ runtimeAlive' = FALSE
    /\ UNCHANGED <<agent, initPc, forms, formFields, dom, isGreenhouseOrIframe,
                   pingInFlight, redetectTimers, lastError, invalidationCalls,
                   fill, retry, pureVars>>

(***************************************************************************)
(* Document events.                                                        *)
(***************************************************************************)
\* the 'visibilitychange' listener of the bootstrap
VisibilityChange ==
    /\ IF ~dom.visible
       THEN /\ forms' = DetectedForms(dom)
            /\ formFields' = MapFormFields(dom)
            /\ dom' = [Observed(agent, UpdateFormIndicator(dom, DetectedForms(dom)),
                                AddedByIndicator(DetectedForms(dom)))
                          EXCEPT !.visible = TRUE]
            /\ fill' = IteratorAfterDetect(fill, dom)
            /\ redetectTimers' =
                   ObserverCallback(agent, redetectTimers,
                                    AddedByIndicator(DetectedForms(dom)))
       ELSE /\ dom' = [dom EXCEPT !.visible = FALSE]
            /\ UNCHANGED <<forms, formFields, fill, redetectTimers>>
    /\ UNCHANGED <<agent, initPc, isGreenhouseOrIframe, runtimeAlive,
                   pingInFlight, lastError, invalidationCalls,
                   retry, pureVars>>

\* the host page re-renders field f: a new element replaces the old one,
\* and the MutationObserver callback runs when the observer is attached
PageMutation(f) ==
    /\ dom.elems[f] < MaxGen
    /\ dom' = Observed(agent, [dom EXCEPT !.elems[f] = @ + 1, !.filled = @ \ {f}],
                       {FieldNode})
    /\ redetectTimers' = ObserverCallback(agent, redetectTimers, {FieldNode})
    /\ redetectTimers' <= MaxTimers
    /\ UNCHANGED <<agent, initPc, forms, formFields, isGreenhouseOrIframe,
                   runtimeAlive, pingInFlight, lastError, invalidationCalls,
                   fill, retry, pureVars>>

\* one setTimeout(() => this.detectJobForms(), 500) fires
RedetectTimerFires ==
    /\ redetectTimers > 0
    /\ DetectJobForms(redetectTimers - 1)
    /\ UNCHANGED <<agent, initPc, isGreenhouseOrIframe, runtimeAlive,
                   pingInFlight, lastError, invalidationCalls, retry, pureVars>>

NextSession ==
    \/ RegistrationResolves
    \/ RegistrationRejects
    \/ PingTick
    \/ PingSucceeds
    \/ \E m \in ErrorMessages : PingFails(m)
    \/ \E m \in ErrorMessages : GlobalErrorEvent(m)
    \/ NoticeAutoRemove
    \/ RuntimeTeardown
    \/ VisibilityChange
    \/ \E f \in Fields : PageMutation(f)
    \/ RedetectTimerFires

Spec == Init /\ [][NextSession]_vars

\* a pending setTimeout callback is run by the page's event loop
FairSpec == Spec /\ WF_vars(RedetectTimerFires)

(***************************************************************************)
(* The message listener: 'detectForms' and 'fillForm'.                     *)
(***************************************************************************)
DetectFormsMessage ==
    /\ initPc = "done"
    /\ DetectJobForms(redetectTimers)
    /\ UNCHANGED <<agent, initPc, isGreenhouseOrIframe, runtimeAlive,
                   pingInFlight, lastError, invalidationCalls,
                   retry, pureVars>>

\* fillFormWithData is called: the iterator takes the first entry of the
\* field map, if there is one
FillStart(data) ==
    /\ initPc = "done"
    /\ fill.pc \in {"idle", "done"}
    /\ fill' = [pc |-> IF forms > 0 THEN "next" ELSE "logging",
                fields |-> formFields, pending |-> FALSE, formData |-> data,
                index |-> 1, filledFields |-> 0, totalFields |-> 0,
                written |-> 0, writtenField |-> "none", threw |-> {},
                telemetry |-> "none", outcome |-> NoOutcome]
    /\ UNCHANGED <<agent, initPc, forms, formFields, dom, isGreenhouseOrIframe,
                   runtimeAlive, pingInFlight, redetectTimers, lastError,
                   invalidationCalls, retry, pureVars>>

\* mutant: a value resolves for every field
HasValueAlways(data, f) == TRUE

\* getValueForField: formData is modelled by the fields a value resolves for
HasValue(data, f) == f \in data

\* the loop head: the next field of the current entry, or the next entry of
\* the field map, or the end of the loops
FillNext ==
    /\ fill.pc = "next"
    /\ IF fill.index <= Len(FieldOrder)
       THEN LET f == FieldOrder[fill.index]
            IN IF HasValue(fill.formData, f) /\ fill.fields[f] # 0
               THEN fill' = [fill EXCEPT !.totalFields = @ + 1,
                                         !.pc = "delay"]
               ELSE fill' = [fill EXCEPT !.totalFields = @ + 1,
                                         !.index = @ + 1]
       ELSE IF fill.pending
            THEN /\ fill.totalFields + Len(FieldOrder) <= MaxPassFields
                 /\ fill' = [fill EXCEPT !.fields = formFields,
                                         !.pending = FALSE,
                                         !.index = 1]
            ELSE fill' = [fill EXCEPT !.pc = "logging"]
    /\ UNCHANGED <<agent, initPc, forms, formFields, dom, isGreenhouseOrIframe,
                   runtimeAlive, pingInFlight, redetectTimers, lastError,
                   invalidationCalls, retry, pureVars>>

\* the element fillField writes to: the one captured in the field map
WriteTarget(fieldInfo, f) == fieldInfo[f]

\* mutant: fillField has no try/catch, the error of a writer reaches the
\* catch block of fillFormWithData
AfterFillFieldUncaught(pass, f, target, threw) ==
    IF threw
    THEN [pass EXCEPT !.pc = "done",
                      !.threw = @ \cup {f},
                      !.outcome = [NoOutcome EXCEPT !.kind = "error"]]
    ELSE [pass EXCEPT !.pc = "next",
                      !.index = @ + 1,
                      !.filledFields = @ + 1,
                      !.written = target,
                      !.writtenField = f]

\* the pass after fillField(element, value) has returned: an error of the
\* writer is caught and logged inside fillField, and the field is counted
AfterFillField(pass, f, target, threw) ==
    [pass EXCEPT !.pc = "next",
                 !.index = @ + 1,
                 !.filledFields = @ + 1,
                 !.written = target,
                 !.writtenField = f,
                 !.threw = IF threw THEN @ \cup {f} ELSE @]

\* fillField after its delay: the writer assigns the value to the element,
\* or throws before it has assigned anything
FillWrite(threw) ==
    /\ fill.pc = "delay"
    /\ LET f == FieldOrder[fill.index]
           target == WriteTarget(fill.fields, f)
       IN /\ fill' = AfterFillField(fill, f, target, threw)
          /\ dom' = IF target = dom.elems[f] /\ ~threw
                    THEN [dom EXCEPT !.filled = @ \cup {f}]
                    ELSE dom
    /\ UNCHANGED <<agent, initPc, forms, formFields, isGreenhouseOrIframe,
                   runtimeAlive, pingInFlight, redetectTimers, lastError,
                   invalidationCalls, retry, pureVars>>

\* Math.round((filledFields / totalFields) * 100), 0 for no field
Accuracy(filledFields, totalFields) ==
    IF totalFields > 0
    THEN (200 * filledFields + totalFields) \div (2 * totalFields)
    ELSE 0

\* the value fillFormWithData returns after its loops
FillOutcome(filledFields, totalFields) ==
    [kind |-> "outcome", success |-> TRUE, filledFields |-> filledFields,
     totalFields |-> totalFields,
     accuracy |-> Accuracy(filledFields, totalFields)]

\* logFillingActivity posts the counts and the pass awaits the answer
FillLog ==
    /\ fill.pc = "logging"
    /\ fill' = [fill EXCEPT !.pc = "awaitLog", !.telemetry = "pending"]
    /\ UNCHANGED <<agent, initPc, forms, formFields, dom, isGreenhouseOrIframe,
                   runtimeAlive, pingInFlight, redetectTimers, lastError,
                   invalidationCalls, retry, pureVars>>

\* the fetch of logFillingActivity has settled, with an answer or with a
\* rejection that its catch block logs, and the outcome is returned
FillFinish(answer) ==
    /\ fill.pc = "awaitLog"
    /\ fill' = [fill EXCEPT !.pc = "done",
                            !.telemetry = answer,
                            !.outcome = FillOutcome(fill.filledFields,
                                                    fill.totalFields)]
    /\ UNCHANGED <<agent, initPc, forms, formFields, dom, isGreenhouseOrIframe,
                   runtimeAlive, pingInFlight, redetectTimers, lastError,
                   invalidationCalls, retry, pureVars>>

TelemetryAnswers == {"answered", "rejected"}

NextFill ==
    \/ RegistrationResolves
    \/ DetectFormsMessage
    \/ \E f \in Fields : PageMutation(f)
    \/ RedetectTimerFires
    \/ \E data \in SUBSET Fields : FillStart(data)
    \/ FillNext
    \/ \E threw \in BOOLEAN : FillWrite(threw)
    \/ FillLog
    \/ \E answer \in TelemetryAnswers : FillFinish(answer)

FillSpec == Init /\ [][NextFill]_vars

\* The steps of the pass are continuations the event loop runs once they
\* are ready; the answer of the telemetry endpoint is not the agent's to
\* give, so FillFinish is under no fairness condition.
FairFillSpec ==
    /\ FillSpec
    /\ WF_vars(FillNext)
    /\ WF_vars(\E threw \in BOOLEAN : FillWrite(threw))
    /\ WF_vars(FillLog)

(***************************************************************************)
(* sendMessageWithRetry(tabId, message, maxRetries = 3) of the coordinator  *)
(* (background.js) and of the popup (popup.js).                            *)
(***************************************************************************)
Callers == {"background", "popup"}

DefaultMaxRetries == 3

\* what a failed content-script injection may report
InjectErrors == {ErrCannotAccess, ErrTimeout}

\* mutant: every failed attempt re-injects the content script
ReinjectOnAnyError(caller, message) == TRUE

\* the test that guards chrome.scripting.executeScript in the catch block
ReinjectOnError(caller, message) ==
    IF caller = "background"
    THEN \/ Includes(message, SigContextInvalidated)
         \/ Includes(message, SigCouldNotEstablish)
    ELSE \/ Includes(message, SigContextInvalidated)
         \/ Includes(message, SigCouldNotEstablish)
         \/ Includes(message, SigReceivingEnd)

\* mutant: the same wait after every attempt
BackoffConstant(i) == 500

\* setTimeout(resolve, 500 * (i + 1))
Backoff(i) == 500 * (i + 1)

\* the wait after a successful injection: 500 ms and then the backoff in
\* the coordinator, 1000 + i * 500 ms in the popup
WaitAfterInjection(caller, i) ==
    IF caller = "background" THEN 500 + Backoff(i) ELSE 1000 + (i * 500)

\* the end of one loop iteration: i++ and the loop test, then the throw
LoopNext(r) ==
    IF r.i + 1 < r.maxRetries
    THEN [r EXCEPT !.i = @ + 1, !.pc = "sending"]
    ELSE [r EXCEPT !.i = @ + 1, !.pc = "thrown", !.thrown = r.lastError]

RetryStart(caller, n) ==
    /\ retry.pc = "idle"
    /\ retry' = [IdleRetry EXCEPT !.pc = "sending", !.caller = caller,
                                  !.maxRetries = n]
    /\ UNCHANGED <<sessionVars, fill, pureVars>>

\* await chrome.tabs.sendMessage resolves: the response is returned
SendSucceeds ==
    /\ retry.pc = "sending"
    /\ retry' = [retry EXCEPT !.attempts = @ + 1, !.pc = "returned"]
    /\ UNCHANGED <<sessionVars, fill, pureVars>>

\* await chrome.tabs.sendMessage rejects: the catch block up to its first await
SendFails(message) ==
    /\ retry.pc = "sending"
    /\ IF ReinjectOnError(retry.caller, message)
       THEN retry' = [retry EXCEPT !.attempts = @ + 1,
                                   !.lastError = message,
                                   !.injections = @ + 1,
                                   !.pc = "injecting"]
       ELSE retry' = [retry EXCEPT !.attempts = @ + 1,
                                   !.lastError = message,
                                   !.lastWait = Backoff(retry.i),
                                   !.pc = "waiting"]
    /\ UNCHANGED <<sessionVars, fill, pureVars>>

\* chrome.scripting.executeScript resolves
InjectSucceeds ==
    /\ retry.pc = "injecting"
    /\ retry' = [retry EXCEPT !.lastWait = WaitAfterInjection(retry.caller, retry.i),
                              !.pc = "waiting"]
    /\ UNCHANGED <<sessionVars, fill, pureVars>>

\* chrome.scripting.executeScript rejects: the coordinator logs and goes on
\* to its backoff; the popup rethrows for a restricted page and otherwise
\* starts the next iteration at once
InjectFails(injectError) ==
    /\ retry.pc = "injecting"
    /\ IF retry.caller = "background"
       THEN retry' = [retry EXCEPT !.lastWait = Backoff(retry.i),
                                   !.pc = "waiting"]
       ELSE IF Includes(injectError, SigCannotAccess)
            THEN retry' = [retry EXCEPT !.pc = "thrown",
                                        !.thrown = ErrCannotAccess]
            ELSE retry' = LoopNext([retry EXCEPT !.lastWait = 0])
    /\ UNCHANGED <<sessionVars, fill, pureVars>>

\* the timers of the catch block have fired
WaitElapses ==
    /\ retry.pc = "waiting"
    /\ retry' = LoopNext(retry)
    /\ UNCHANGED <<sessionVars, fill, pureVars>>

NextRetry ==
    \/ \E c \in Callers, n \in 1..MaxRetriesBound : RetryStart(c, n)
    \/ SendSucceeds
    \/ \E m \in ErrorMessages : SendFails(m)
    \/ InjectSucceeds
    \/ \E e \in InjectErrors : InjectFails(e)
    \/ WaitElapses

RetrySpec == Init /\ [][NextRetry]_vars

(***************************************************************************)
(* Strings.  A JavaScript string is modelled by the sequence of its        *)
(* characters, so that includes, toLowerCase, split and the edit distance  *)
(* are computed on the characters as the code computes them.               *)
(***************************************************************************)
UpperCaseLetters ==
    <<"A", "B", "C", "D", "E", "F", "G", "H", "I", "J", "K", "L", "M",
      "N", "O", "P", "Q", "R", "S", "T", "U", "V", "W", "X", "Y", "Z">>

LowerCaseLetters ==
    <<"a", "b", "c", "d", "e", "f", "g", "h", "i", "j", "k", "l", "m",
      "n", "o", "p", "q", "r", "s", "t", "u", "v", "w", "x", "y", "z">>

Digits == {"0", "1", "2", "3", "4", "5", "6", "7", "8", "9"}

\* the characters matched by \s (the model's strings hold no other blank)
Whitespace == {" "}

Range(seq) == {seq[i] : i \in DOMAIN seq}

\* String.prototype.toLowerCase
ToLowerCase(s) ==
    [i \in DOMAIN s |->
        IF \E k \in DOMAIN UpperCaseLetters : UpperCaseLetters[k] = s[i]
        THEN LowerCaseLetters[CHOOSE k \in DOMAIN UpperCaseLetters :
                                  UpperCaseLetters[k] = s[i]]
        ELSE s[i]]

\* String.prototype.includes
StringIncludes(s, p) ==
    \E i \in 0..(Len(s) - Len(p)) : SubSeq(s, i + 1, i + Len(p)) = p

\* String.prototype.trim
RECURSIVE Trim(_)
Trim(s) ==
    IF s = <<>> THEN s
    ELSE IF Head(s) \in Whitespace THEN Trim(Tail(s))
    ELSE IF s[Len(s)] \in Whitespace THEN Trim(SubSeq(s, 1, Len(s) - 1))
    ELSE s

\* the pieces of s between the characters of seps: s.split(/\s+|[_-]+/) for
\* seps = blanks, "_" and "-", s.split(' ') for seps = {" "}.  Empty
\* pieces are left out and counted by SplitLength.
Split(s, seps) ==
    {SubSeq(s, i, j) : <<i, j>> \in
        {p \in (DOMAIN s) \X (DOMAIN s) :
            /\ p[1] <= p[2]
            /\ \A k \in p[1]..p[2] : s[k] \notin seps
            /\ (p[1] = 1 \/ s[p[1] - 1] \in seps)
            /\ (p[2] = Len(s) \/ s[p[2] + 1] \in seps)}}

\* s.split(' ').length: one piece more than there are separators
SplitLength(s, seps) == Cardinality({i \in DOMAIN s : s[i] \in seps}) + 1

WordSeparators == Whitespace \cup {"_", "-"}

\* hasWordOverlap: a word longer than 2 characters is in both lists
HasWordOverlap(words1, words2) ==
    {w \in words1 : Len(w) > 2} \cap {w \in words2 : Len(w) > 2} # {}

Min3(a, b, c) ==
    IF a <= b THEN (IF a <= c THEN a ELSE c) ELSE (IF b <= c THEN b ELSE c)

\* One row of the matrix of levenshteinDistance: row j from the row above
\* it, for the character ch = str2[j - 1].  A row is the sequence of its
\* columns 0..Len(str1) (column i at index i + 1); acc holds the columns
\* computed so far.
RECURSIVE LevenshteinRow(_, _, _, _)
LevenshteinRow(above, ch, str1, acc) ==
    IF Len(acc) > Len(str1) THEN acc
    ELSE LET i == Len(acc)
         IN LevenshteinRow(above, ch, str1,
                Append(acc, Min3(above[i + 1] + 1,
                                 acc[i] + 1,
                                 above[i] + (IF str1[i] = ch THEN 0 ELSE 1))))

\* the matrix of levenshteinDistance, row after row: matrix holds the rows
\* 0..Len(matrix) - 1 (row j at index j + 1)
RECURSIVE LevenshteinMatrix(_, _, _)
LevenshteinMatrix(matrix, str1, str2) ==
    IF Len(matrix) > Len(str2) THEN matrix
    ELSE LET j == Len(matrix)
         IN LevenshteinMatrix(
                Append(matrix, LevenshteinRow(matrix[j], str2[j], str1, <<j>>)),
                str1, str2)

LevenshteinDistance(str1, str2) ==
    LevenshteinMatrix(<<[i \in 1..(Len(str1) + 1) |-> i - 1]>>, str1, str2)
        [Len(str2) + 1][Len(str1) + 1]

\* A similarity is the exact quotient num / den of two naturals.
Ratio(n, d) == [num |-> n, den |-> d]

RatioGreater(a, b) == a.num * b.den > b.num * a.den

RatioMax(a, b) == IF RatioGreater(b, a) THEN b ELSE a

\* CalculateSimilarity: (longer.length - editDistance) / longer.length
CalculateSimilarity(text1, text2) ==
    LET longer == IF Len(text1) > Len(text2) THEN text1 ELSE text2
        shorter == IF Len(text1) > Len(text2) THEN text2 ELSE text1
    IN IF Len(longer) = 0 THEN Ratio(1, 1)
       ELSE Ratio(Len(longer) - LevenshteinDistance(longer, shorter), Len(longer))

(***************************************************************************)
(* The field classifier: identifyField with its pattern taxonomy, in the   *)
(* order in which Object.entries enumerates it (declaration order).        *)
(***************************************************************************)
FieldPatterns ==
    <<
     [category |-> "personalInfo", type |-> "fullName", patterns |-> <<
            <<"f", "u", "l", "l", "_", "n", "a", "m", "e">>,
            <<"f", "u", "l", "l", "n", "a", "m", "e">>,
            <<"n", "a", "m", "e">>,
            <<"f", "u", "l", "l", "-", "n", "a", "m", "e">>,
            <<"c", "a", "n", "d", "i", "d", "a", "t", "e", "_", "n", "a", "m", "e">>,
            <<"a", "p", "p", "l", "i", "c", "a", "n", "t", "_", "n", "a", "m", "e">>,
            <<"u", "s", "e", "r", "_", "n", "a", "m", "e">>,
            <<"y", "o", "u", "r", "_", "n", "a", "m", "e">>,
            <<"c", "o", "n", "t", "a", "c", "t", "_", "n", "a", "m", "e">>>>],
     [category |-> "personalInfo", type |-> "firstName", patterns |-> <<
            <<"f", "i", "r", "s", "t">>,
            <<"f", "n", "a", "m", "e">>,
            <<"g", "i", "v", "e", "n">>,
            <<"n", "a", "m", "e", "_", "f", "i", "r", "s", "t">>,
            <<"f", "i", "r", "s", "t", "n", "a", "m", "e">>,
            <<"g", "i", "v", "e", "n", "n", "a", "m", "e">>,
            <<"f", "o", "r", "e", "n", "a", "m", "e">>,
            <<"f", "i", "r", "s", "t", "_", "n", "a", "m", "e">>,
            <<"n", "a", "m", "e", "-", "f", "i", "r", "s", "t">>,
            <<"u", "s", "e", "r", "_", "f", "i", "r", "s", "t">>,
            <<"p", "e", "r", "s", "o", "n", "a", "l", "_", "f", "i", "r", "s", "t">>,
            <<"f", "i", "r", "s", "t", "-", "n", "a", "m", "e">>,
            <<"g", "i", "v", "e", "n", "_", "n", "a", "m", "e">>,
            <<"g", "i", "v", "e", "n", "-", "n", "a", "m", "e">>>>],
     [category |-> "personalInfo", type |-> "lastName", patterns |-> <<
            <<"l", "a", "s", "t">>,
            <<"l", "n", "a", "m", "e">>,
            <<"f", "a", "m", "i", "l", "y">>,
            <<"s", "u", "r", "n", "a", "m", "e">>,
            <<"n", "a", "m", "e", "_", "l", "a", "s", "t">>,
            <<"l", "a", "s", "t", "n", "a", "m", "e">>,
            <<"f", "a", "m", "i", "l", "y", "n", "a", "m", "e">>,
            <<"n", "a", "m", "e", "-", "l", "a", "s", "t">>,
            <<"u", "s", "e", "r", "_", "l", "a", "s", "t">>,
            <<"p", "e", "r", "s", "o", "n", "a", "l", "_", "l", "a", "s", "t">>,
            <<"l", "a", "s", "t", "-", "n", "a", "m", "e">>,
            <<"f", "a", "m", "i", "l", "y", "_", "n", "a", "m", "e">>,
            <<"f", "a", "m", "i", "l", "y", "-", "n", "a", "m", "e">>,
            <<"s", "u", "r", "_", "n", "a", "m", "e">>>>],
     [category |-> "personalInfo", type |-> "email", patterns |-> <<
            <<"e", "m", "a", "i", "l">>,
            <<"m", "a", "i", "l">>,
            <<"e", "-", "m", "a", "i", "l">>,
            <<"e", "m", "a", "i", "l", "_", "a", "d", "d", "r", "e", "s", "s">>,
            <<"e", "m", "a", "i", "l", "a", "d", "d", "r", "e", "s", "s">>,
            <<"u", "s", "e", "r", "_", "e", "m", "a", "i", "l">>,
            <<"c", "o", "n", "t", "a", "c", "t", "_", "e", "m", "a", "i", "l">>,
            <<"w", "o", "r", "k", "_", "e", "m", "a", "i", "l">>>>],
     [category |-> "personalInfo", type |-> "phone", patterns |-> <<
            <<"p", "h", "o", "n", "e">>,
            <<"m", "o", "b", "i", "l", "e">>,
            <<"c", "e", "l", "l">>,
            <<"t", "e", "l">>,
            <<"t", "e", "l", "e", "p", "h", "o", "n", "e">>,
            <<"c", "o", "n", "t", "a", "c", "t">>,
            <<"p", "h", "o", "n", "e", "_", "n", "u", "m", "b", "e", "r">>,
            <<"p", "h", "o", "n", "e", "n", "u", "m", "b", "e", "r">>,
            <<"m", "o", "b", "i", "l", "e", "_", "n", "u", "m", "b", "e", "r">>,
            <<"c", "e", "l", "l", "_", "p", "h", "o", "n", "e">>,
            <<"w", "o", "r", "k", "_", "p", "h", "o", "n", "e">>,
            <<"h", "o", "m", "e", "_", "p", "h", "o", "n", "e">>,
            <<"p", "h", "o", "n", "e", "-", "n", "u", "m", "b", "e", "r">>,
            <<"m", "o", "b", "i", "l", "e", "-", "n", "u", "m", "b", "e", "r">>,
            <<"c", "o", "n", "t", "a", "c", "t", "_", "n", "u", "m", "b", "e", "r">>,
            <<"c", "o", "n", "t", "a", "c", "t", "-", "n", "u", "m", "b", "e", "r">>,
            <<"c", "o", "n", "t", "a", "c", "t", "_", "p", "h", "o", "n", "e">>,
            <<"p", "r", "i", "m", "a", "r", "y", "_", "p", "h", "o", "n", "e">>,
            <<"p", "h", "o", "n", "e", "_", "p", "r", "i", "m", "a", "r", "y">>,
            <<"t", "e", "l", "_", "n", "u", "m", "b", "e", "r">>,
            <<"t", "e", "l", "e", "p", "h", "o", "n", "e", "_", "n", "u", "m", "b", "e", "r">>>>],
     [category |-> "personalInfo", type |-> "address", patterns |-> <<
            <<"a", "d", "d", "r", "e", "s", "s">>,
            <<"s", "t", "r", "e", "e", "t">>,
            <<"l", "o", "c", "a", "t", "i", "o", "n">>,
            <<"a", "d", "d", "r", "e", "s", "s", "_", "l", "i", "n", "e">>,
            <<"s", "t", "r", "e", "e", "t", "_", "a", "d", "d", "r", "e", "s", "s">>,
            <<"h", "o", "m", "e", "_", "a", "d", "d", "r", "e", "s", "s">>,
            <<"m", "a", "i", "l", "i", "n", "g", "_", "a", "d", "d", "r", "e", "s", "s">>,
            <<"r", "e", "s", "i", "d", "e", "n", "c", "e">>>>],
     [category |-> "personalInfo", type |-> "city", patterns |-> <<
            <<"c", "i", "t", "y">>,
            <<"t", "o", "w", "n">>,
            <<"m", "u", "n", "i", "c", "i", "p", "a", "l", "i", "t", "y">>,
            <<"l", "o", "c", "a", "l", "i", "t", "y">>>>],
     [category |-> "personalInfo", type |-> "state", patterns |-> <<
            <<"s", "t", "a", "t", "e">>,
            <<"p", "r", "o", "v", "i", "n", "c", "e">>,
            <<"r", "e", "g", "i", "o", "n">>,
            <<"t", "e", "r", "r", "i", "t", "o", "r", "y">>>>],
     [category |-> "personalInfo", type |-> "zipCode", patterns |-> <<
            <<"z", "i", "p">>,
            <<"p", "o", "s", "t", "a", "l">>,
            <<"p", "o", "s", "t", "c", "o", "d", "e">>,
            <<"z", "i", "p", "_", "c", "o", "d", "e">>,
            <<"p", "o", "s", "t", "a", "l", "_", "c", "o", "d", "e">>>>],
     [category |-> "personalInfo", type |-> "country", patterns |-> <<
            <<"c", "o", "u", "n", "t", "r", "y">>,
            <<"n", "a", "t", "i", "o", "n">>,
            <<"n", "a", "t", "i", "o", "n", "a", "l", "i", "t", "y">>>>],
     [category |-> "personalInfo", type |-> "linkedin", patterns |-> <<
            <<"l", "i", "n", "k", "e", "d", "i", "n">>,
            <<"l", "i", "n", "k", "e", "d", "_", "i", "n">>,
            <<"l", "i", "n", "k", "e", "d", "i", "n", "_", "u", "r", "l">>,
            <<"l", "i", "n", "k", "e", "d", "i", "n", "_", "p", "r", "o", "f", "i", "l", "e">>,
            <<"l", "i", "n", "k", "e", "d", "i", "n", "-", "u", "r", "l">>,
            <<"l", "i", "n", "k", "e", "d", "i", "n", "-", "p", "r", "o", "f", "i", "l", "e">>,
            <<"l", "i", "n", "k", "e", "d", "-", "i", "n">>,
            <<"l", "i", "n", "k", "e", "d", "i", "n", "u", "r", "l">>,
            <<"l", "i", "n", "k", "e", "d", "i", "n", "_", "l", "i", "n", "k">>,
            <<"l", "i", "n", "k", "e", "d", "i", "n", "-", "l", "i", "n", "k">>,
            <<"p", "r", "o", "f", "e", "s", "s", "i", "o", "n", "a", "l", "_", "p", "r", "o", "f", "i", "l", "e">>,
            <<"s", "o", "c", "i", "a", "l", "_", "l", "i", "n", "k", "e", "d", "i", "n">>,
            <<"l", "i", "n", "k", "e", "d", "i", "n", "_", "u", "s", "e", "r", "n", "a", "m", "e">>>>],
     [category |-> "personalInfo", type |-> "portfolio", patterns |-> <<
            <<"p", "o", "r", "t", "f", "o", "l", "i", "o">>,
            <<"w", "e", "b", "s", "i", "t", "e">>,
            <<"g", "i", "t", "h", "u", "b">>,
            <<"p", "e", "r", "s", "o", "n", "a", "l", "_", "s", "i", "t", "e">>,
            <<"w", "e", "b">>,
            <<"h", "o", "m", "e", "p", "a", "g", "e">>,
            <<"b", "l", "o", "g">>,
            <<"p", "o", "r", "t", "f", "o", "l", "i", "o", "_", "u", "r", "l">>>>],
     [category |-> "experience", type |-> "summary", patterns |-> <<
            <<"e", "x", "p", "e", "r", "i", "e", "n", "c", "e">>,
            <<"w", "o", "r", "k", "_", "e", "x", "p", "e", "r", "i", "e", "n", "c", "e">>,
            <<"p", "r", "o", "f", "e", "s", "s", "i", "o", "n", "a", "l", "_", "e", "x", "p", "e", "r", "i", "e", "n", "c", "e">>,
            <<"b", "a", "c", "k", "g", "r", "o", "u", "n", "d">>,
            <<"w", "o", "r", "k", "_", "h", "i", "s", "t", "o", "r", "y">>,
            <<"c", "a", "r", "e", "e", "r", "_", "s", "u", "m", "m", "a", "r", "y">>,
            <<"s", "u", "m", "m", "a", "r", "y">>,
            <<"b", "i", "o">>,
            <<"a", "b", "o", "u", "t">>,
            <<"d", "e", "s", "c", "r", "i", "p", "t", "i", "o", "n">>>>],
     [category |-> "experience", type |-> "company", patterns |-> <<
            <<"c", "o", "m", "p", "a", "n", "y">>,
            <<"e", "m", "p", "l", "o", "y", "e", "r">>,
            <<"o", "r", "g", "a", "n", "i", "z", "a", "t", "i", "o", "n">>,
            <<"c", "u", "r", "r", "e", "n", "t", "_", "c", "o", "m", "p", "a", "n", "y">>,
            <<"w", "o", "r", "k", "p", "l", "a", "c", "e">>,
            <<"f", "i", "r", "m">>,
            <<"c", "o", "r", "p", "o", "r", "a", "t", "i", "o", "n">>>>],
     [category |-> "experience", type |-> "title", patterns |-> <<
            <<"t", "i", "t", "l", "e">>,
            <<"p", "o", "s", "i", "t", "i", "o", "n">>,
            <<"r", "o", "l", "e">>,
            <<"j", "o", "b", "_", "t", "i", "t", "l", "e">>,
            <<"c", "u", "r", "r", "e", "n", "t", "_", "t", "i", "t", "l", "e">>,
            <<"c", "u", "r", "r", "e", "n", "t", "_", "p", "o", "s", "i", "t", "i", "o", "n">>,
            <<"j", "o", "b", "_", "r", "o", "l", "e">>,
            <<"d", "e", "s", "i", "g", "n", "a", "t", "i", "o", "n">>>>],
     [category |-> "experience", type |-> "years", patterns |-> <<
            <<"y", "e", "a", "r", "s">>,
            <<"e", "x", "p", "e", "r", "i", "e", "n", "c", "e", "_", "y", "e", "a", "r", "s">>,
            <<"y", "e", "a", "r", "s", "_", "e", "x", "p", "e", "r", "i", "e", "n", "c", "e">>,
            <<"t", "e", "n", "u", "r", "e">>,
            <<"d", "u", "r", "a", "t", "i", "o", "n">>,
            <<"w", "o", "r", "k", "_", "y", "e", "a", "r", "s">>,
            <<"t", "o", "t", "a", "l", "_", "e", "x", "p", "e", "r", "i", "e", "n", "c", "e">>>>],
     [category |-> "education", type |-> "degree", patterns |-> <<
            <<"d", "e", "g", "r", "e", "e">>,
            <<"e", "d", "u", "c", "a", "t", "i", "o", "n">>,
            <<"e", "d", "u", "c", "a", "t", "i", "o", "n", "_", "l", "e", "v", "e", "l">>,
            <<"q", "u", "a", "l", "i", "f", "i", "c", "a", "t", "i", "o", "n">>,
            <<"d", "i", "p", "l", "o", "m", "a">>,
            <<"c", "e", "r", "t", "i", "f", "i", "c", "a", "t", "e">>,
            <<"a", "c", "a", "d", "e", "m", "i", "c", "_", "d", "e", "g", "r", "e", "e">>>>],
     [category |-> "education", type |-> "university", patterns |-> <<
            <<"u", "n", "i", "v", "e", "r", "s", "i", "t", "y">>,
            <<"c", "o", "l", "l", "e", "g", "e">>,
            <<"s", "c", "h", "o", "o", "l">>,
            <<"i", "n", "s", "t", "i", "t", "u", "t", "i", "o", "n">>,
            <<"a", "l", "m", "a", "_", "m", "a", "t", "e", "r">>,
            <<"e", "d", "u", "c", "a", "t", "i", "o", "n", "a", "l", "_", "i", "n", "s", "t", "i", "t", "u", "t", "i", "o", "n">>,
            <<"a", "c", "a", "d", "e", "m", "y">>>>],
     [category |-> "education", type |-> "major", patterns |-> <<
            <<"m", "a", "j", "o", "r">>,
            <<"f", "i", "e", "l", "d">>,
            <<"s", "t", "u", "d", "y">>,
            <<"s", "u", "b", "j", "e", "c", "t">>,
            <<"s", "p", "e", "c", "i", "a", "l", "i", "z", "a", "t", "i", "o", "n">>,
            <<"c", "o", "n", "c", "e", "n", "t", "r", "a", "t", "i", "o", "n">>,
            <<"d", "i", "s", "c", "i", "p", "l", "i", "n", "e">>,
            <<"a", "r", "e", "a", "_", "o", "f", "_", "s", "t", "u", "d", "y">>>>],
     [category |-> "education", type |-> "graduationYear", patterns |-> <<
            <<"g", "r", "a", "d", "u", "a", "t", "i", "o", "n">>,
            <<"g", "r", "a", "d", "_", "y", "e", "a", "r">>,
            <<"c", "o", "m", "p", "l", "e", "t", "i", "o", "n">>,
            <<"y", "e", "a", "r", "_", "g", "r", "a", "d", "u", "a", "t", "e", "d">>,
            <<"f", "i", "n", "i", "s", "h", "_", "y", "e", "a", "r">>,
            <<"c", "o", "m", "p", "l", "e", "t", "i", "o", "n", "_", "y", "e", "a", "r">>>>],
     [category |-> "education", type |-> "gpa", patterns |-> <<
            <<"g", "p", "a">>,
            <<"g", "r", "a", "d", "e">>,
            <<"m", "a", "r", "k", "s">>,
            <<"s", "c", "o", "r", "e">>,
            <<"c", "g", "p", "a">>,
            <<"a", "v", "e", "r", "a", "g", "e">>>>],
     [category |-> "skills", type |-> "technical", patterns |-> <<
            <<"s", "k", "i", "l", "l", "s">>,
            <<"t", "e", "c", "h", "n", "i", "c", "a", "l", "_", "s", "k", "i", "l", "l", "s">>,
            <<"p", "r", "o", "g", "r", "a", "m", "m", "i", "n", "g">>,
            <<"t", "e", "c", "h", "n", "o", "l", "o", "g", "i", "e", "s">>,
            <<"l", "a", "n", "g", "u", "a", "g", "e", "s">>,
            <<"f", "r", "a", "m", "e", "w", "o", "r", "k", "s">>,
            <<"t", "o", "o", "l", "s">>,
            <<"c", "o", "m", "p", "e", "t", "e", "n", "c", "i", "e", "s">>>>],
     [category |-> "other", type |-> "coverLetter", patterns |-> <<
            <<"c", "o", "v", "e", "r">>,
            <<"l", "e", "t", "t", "e", "r">>,
            <<"m", "o", "t", "i", "v", "a", "t", "i", "o", "n">>,
            <<"w", "h", "y">>,
            <<"c", "o", "v", "e", "r", "_", "l", "e", "t", "t", "e", "r">>,
            <<"p", "e", "r", "s", "o", "n", "a", "l", "_", "s", "t", "a", "t", "e", "m", "e", "n", "t">>,
            <<"o", "b", "j", "e", "c", "t", "i", "v", "e">>,
            <<"i", "n", "t", "e", "r", "e", "s", "t">>>>],
     [category |-> "other", type |-> "salary", patterns |-> <<
            <<"s", "a", "l", "a", "r", "y">>,
            <<"c", "o", "m", "p", "e", "n", "s", "a", "t", "i", "o", "n">>,
            <<"e", "x", "p", "e", "c", "t", "e", "d", "_", "s", "a", "l", "a", "r", "y">>,
            <<"p", "a", "y">>,
            <<"w", "a", "g", "e">>,
            <<"r", "e", "m", "u", "n", "e", "r", "a", "t", "i", "o", "n">>,
            <<"s", "a", "l", "a", "r", "y", "_", "e", "x", "p", "e", "c", "t", "a", "t", "i", "o", "n">>>>],
     [category |-> "other", type |-> "availability", patterns |-> <<
            <<"a", "v", "a", "i", "l", "a", "b", "i", "l", "i", "t", "y">>,
            <<"s", "t", "a", "r", "t", "_", "d", "a", "t", "e">>,
            <<"a", "v", "a", "i", "l", "a", "b", "l", "e">>,
            <<"n", "o", "t", "i", "c", "e">>,
            <<"w", "h", "e", "n", "_", "a", "v", "a", "i", "l", "a", "b", "l", "e">>,
            <<"s", "t", "a", "r", "t", "_", "t", "i", "m", "e">>>>],
     [category |-> "other", type |-> "workAuthorization", patterns |-> <<
            <<"a", "u", "t", "h", "o", "r", "i", "z", "a", "t", "i", "o", "n">>,
            <<"v", "i", "s", "a">>,
            <<"e", "l", "i", "g", "i", "b", "l", "e">>,
            <<"a", "u", "t", "h", "o", "r", "i", "z", "e", "d">>,
            <<"s", "p", "o", "n", "s", "o", "r">>,
            <<"w", "o", "r", "k", "_", "p", "e", "r", "m", "i", "t">>,
            <<"l", "e", "g", "a", "l", "_", "s", "t", "a", "t", "u", "s">>,
            <<"e", "m", "p", "l", "o", "y", "m", "e", "n", "t", "_", "a", "u", "t", "h", "o", "r", "i", "z", "a", "t", "i", "o", "n">>,
            <<"w", "o", "r", "k", "_", "a", "u", "t", "h", "o", "r", "i", "z", "a", "t", "i", "o", "n">>,
            <<"w", "o", "r", "k", "-", "a", "u", "t", "h", "o", "r", "i", "z", "a", "t", "i", "o", "n">>,
            <<"v", "i", "s", "a", "_", "s", "t", "a", "t", "u", "s">>,
            <<"v", "i", "s", "a", "-", "s", "t", "a", "t", "u", "s">>,
            <<"s", "p", "o", "n", "s", "o", "r", "s", "h", "i", "p">>,
            <<"l", "e", "g", "a", "l", "l", "y", "_", "a", "u", "t", "h", "o", "r", "i", "z", "e", "d">>,
            <<"w", "o", "r", "k", "_", "e", "l", "i", "g", "i", "b", "l", "e">>,
            <<"e", "m", "p", "l", "o", "y", "m", "e", "n", "t", "_", "e", "l", "i", "g", "i", "b", "l", "e">>,
            <<"r", "e", "q", "u", "i", "r", "e", "_", "s", "p", "o", "n", "s", "o", "r", "s", "h", "i", "p">>,
            <<"v", "i", "s", "a", "_", "r", "e", "q", "u", "i", "r", "e", "d">>,
            <<"w", "o", "r", "k", "_", "v", "i", "s", "a">>,
            <<"e", "m", "p", "l", "o", "y", "m", "e", "n", "t", "_", "v", "i", "s", "a">>,
            <<"l", "e", "g", "a", "l", "_", "w", "o", "r", "k">>,
            <<"u", "s", "_", "c", "i", "t", "i", "z", "e", "n">>>>],
     [category |-> "other", type |-> "willingToRelocate", patterns |-> <<
            <<"r", "e", "l", "o", "c", "a", "t", "e">>,
            <<"r", "e", "l", "o", "c", "a", "t", "i", "o", "n">>,
            <<"m", "o", "v", "e">>,
            <<"w", "i", "l", "l", "i", "n", "g", "_", "t", "o", "_", "m", "o", "v", "e">>,
            <<"o", "p", "e", "n", "_", "t", "o", "_", "r", "e", "l", "o", "c", "a", "t", "i", "o", "n">>>>],
     [category |-> "other", type |-> "remoteWork", patterns |-> <<
            <<"r", "e", "m", "o", "t", "e">>,
            <<"w", "o", "r", "k", "_", "f", "r", "o", "m", "_", "h", "o", "m", "e">>,
            <<"t", "e", "l", "e", "c", "o", "m", "m", "u", "t", "e">>,
            <<"w", "f", "h">>>>],
     [category |-> "other", type |-> "resume", patterns |-> <<
            <<"r", "e", "s", "u", "m", "e">>,
            <<"c", "v">>,
            <<"c", "u", "r", "r", "i", "c", "u", "l", "u", "m", "_", "v", "i", "t", "a", "e">>,
            <<"r", "e", "s", "u", "m", "e", "_", "u", "p", "l", "o", "a", "d">>,
            <<"c", "v", "_", "u", "p", "l", "o", "a", "d">>,
            <<"a", "t", "t", "a", "c", "h", "_", "r", "e", "s", "u", "m", "e">>,
            <<"u", "p", "l", "o", "a", "d", "_", "r", "e", "s", "u", "m", "e">>,
            <<"r", "e", "s", "u", "m", "e", "_", "f", "i", "l", "e">>,
            <<"c", "v", "_", "f", "i", "l", "e">>,
            <<"r", "e", "s", "u", "m", "e", "_", "a", "t", "t", "a", "c", "h", "m", "e", "n", "t">>,
            <<"c", "v", "_", "a", "t", "t", "a", "c", "h", "m", "e", "n", "t">>,
            <<"d", "o", "c", "u", "m", "e", "n", "t", "_", "u", "p", "l", "o", "a", "d">>,
            <<"f", "i", "l", "e", "_", "u", "p", "l", "o", "a", "d">>,
            <<"d", "o", "c", "u", "m", "e", "n", "t">>,
            <<"a", "t", "t", "a", "c", "h", "m", "e", "n", "t">>,
            <<"u", "p", "l", "o", "a", "d">>,
            <<"f", "i", "l", "e">>,
            <<"r", "e", "s", "u", "m", "e", "-", "u", "p", "l", "o", "a", "d">>,
            <<"c", "v", "-", "u", "p", "l", "o", "a", "d">>,
            <<"r", "e", "s", "u", "m", "e", "-", "f", "i", "l", "e">>,
            <<"c", "v", "-", "f", "i", "l", "e">>,
            <<"u", "p", "l", "o", "a", "d", "-", "r", "e", "s", "u", "m", "e">>,
            <<"u", "p", "l", "o", "a", "d", "-", "c", "v">>,
            <<"r", "e", "s", "u", "m", "e", "f", "i", "l", "e">>,
            <<"c", "v", "f", "i", "l", "e">>,
            <<"r", "e", "s", "u", "m", "e", "_", "d", "o", "c">>,
            <<"c", "v", "_", "d", "o", "c">>,
            <<"d", "o", "c", "u", "m", "e", "n", "t", "s">>>>],
     [category |-> "other", type |-> "coverLetterFile", patterns |-> <<
            <<"c", "o", "v", "e", "r", "_", "l", "e", "t", "t", "e", "r", "_", "f", "i", "l", "e">>,
            <<"c", "o", "v", "e", "r", "_", "l", "e", "t", "t", "e", "r", "_", "u", "p", "l", "o", "a", "d">>,
            <<"l", "e", "t", "t", "e", "r", "_", "u", "p", "l", "o", "a", "d">>,
            <<"a", "t", "t", "a", "c", "h", "_", "c", "o", "v", "e", "r", "_", "l", "e", "t", "t", "e", "r">>,
            <<"c", "o", "v", "e", "r", "_", "l", "e", "t", "t", "e", "r", "_", "a", "t", "t", "a", "c", "h", "m", "e", "n", "t">>>>]
    >>

\* fuzzyMatchField: a pattern is contained in the text, or shares a word
\* with it, or is more than 0.7 similar to it
SimilarityThreshold == Ratio(7, 10)

FuzzyMatchField(text, patterns) ==
    \/ \E k \in DOMAIN patterns : StringIncludes(text, patterns[k])
    \/ \E k \in DOMAIN patterns :
           HasWordOverlap(Split(text, WordSeparators),
                          Split(patterns[k], WordSeparators))
    \/ \E k \in DOMAIN patterns :
           RatioGreater(CalculateSimilarity(text, patterns[k]),
                        SimilarityThreshold)

\* calculateMatchConfidence: the largest of 1.0 for a contained pattern
\* and the similarity of every other pattern
RECURSIVE MaxConfidence(_, _, _, _)
MaxConfidence(text, patterns, k, maxConfidence) ==
    IF k > Len(patterns) THEN maxConfidence
    ELSE MaxConfidence(text, patterns, k + 1,
            RatioMax(maxConfidence,
                     IF StringIncludes(text, patterns[k]) THEN Ratio(1, 1)
                     ELSE CalculateSimilarity(text, patterns[k])))

CalculateMatchConfidence(text, patterns) ==
    MaxConfidence(text, patterns, 1, Ratio(0, 1))

NoClassification == [category |-> "null", type |-> "null", confidence |-> Ratio(0, 1)]

\* mutant: a later entry that matches overrides an earlier one
RECURSIVE LastMatch(_, _, _)
LastMatch(allText, taxonomy, k) ==
    IF k > Len(taxonomy) THEN NoClassification
    ELSE LET later == LastMatch(allText, taxonomy, k + 1)
         IN  IF later # NoClassification THEN later
             ELSE IF FuzzyMatchField(allText, taxonomy[k].patterns)
             THEN [category |-> taxonomy[k].category,
                   type |-> taxonomy[k].type,
                   confidence |-> CalculateMatchConfidence(allText, taxonomy[k].patterns)]
             ELSE NoClassification

\* the loop of identifyField over the taxonomy from entry k on: the first
\* entry that matches wins
RECURSIVE FirstMatch(_, _, _)
FirstMatch(allText, taxonomy, k) ==
    IF k > Len(taxonomy) THEN NoClassification
    ELSE IF FuzzyMatchField(allText, taxonomy[k].patterns)
         THEN [category |-> taxonomy[k].category,
               type |-> taxonomy[k].type,
               confidence |-> CalculateMatchConfidence(allText, taxonomy[k].patterns)]
         ELSE FirstMatch(allText, taxonomy, k + 1)

\* the text signals of an input control joined into the haystack
AllText(input) ==
    ToLowerCase(input.name \o <<" ">> \o input.id \o <<" ">> \o
                input.placeholder \o <<" ">> \o input.label \o <<" ">> \o
                input.ariaLabel \o <<" ">> \o input.title)

\* the names of the input controls of the documents explored: two lists of
\* field names and the name of an input that is no job field
NameOrders ==
    <<<<<<"f", "i", "r", "s", "t", "_", "n", "a", "m", "e">>, <<"e", "m", "a", "i", "l">>, <<"p", "h", "o", "n", "e">>, <<"r", "e", "s", "u", "m", "e">>, <<"c", "o", "v", "e", "r", "_", "l", "e", "t", "t", "e", "r">>,
        <<"l", "i", "n", "k", "e", "d", "i", "n">>, <<"s", "a", "l", "a", "r", "y">>>>,
      <<<<"f", "n", "a", "m", "e">>, <<"l", "n", "a", "m", "e">>, <<"e", "m", "a", "i", "l">>, <<"r", "e", "s", "u", "m", "e">>, <<"c", "o", "v", "e", "r", "_", "l", "e", "t", "t", "e", "r">>,
        <<"p", "h", "o", "n", "e">>, <<"l", "i", "n", "k", "e", "d", "i", "n">>>>>>

AnonymousName == <<"q">>

TextSignalsOf(name) ==
    [name |-> name, id |-> <<>>, placeholder |-> <<>>,
     label |-> <<>>, ariaLabel |-> <<>>, title |-> <<>>]

\* the text signals identifyField reads from an input control
TextSignals(input) ==
    [name |-> input.name, id |-> input.id, placeholder |-> input.placeholder,
     label |-> input.label, ariaLabel |-> input.ariaLabel, title |-> input.title]

Classify(signals) == FirstMatch(AllText(signals), FieldPatterns, 1)

\* identifyField is a function of the text signals alone: its values on the
\* signals of the documents explored are tabulated
KnownTextSignals ==
    {TextSignalsOf(name) :
        name \in {AnonymousName} \cup UNION {Range(NameOrders[k]) : k \in DOMAIN NameOrders}}

ClassificationTable == {<<signals, Classify(signals)>> : signals \in KnownTextSignals}

IdentifyField(input) ==
    LET signals == TextSignals(input)
    IN IF signals \in KnownTextSignals
       THEN (CHOOSE entry \in ClassificationTable : entry[1] = signals)[2]
       ELSE Classify(signals)

(***************************************************************************)
(* Form and cluster discovery on a document: the forms, the containers     *)
(* that match potentialSelectors and the proximity clusters of inputs.     *)
(* A document holds its address, at most one form element, at most one     *)
(* generic container, the agent's indicator element when it was added, and *)
(* a sequence of input controls in document order, each with its text      *)
(* signals, the centre of its rectangle and the elements that contain it.  *)
(***************************************************************************)
EmptyString == <<>>

\* the elements of the document that are not input controls, in document
\* order: a container that holds every input encloses the form, any other
\* container lies inside or after it; the indicator is appended to the body
ContainerEnclosesForm(doc) ==
    \A i \in DOMAIN doc.inputs : doc.inputs[i].inContainer

Elements(doc) ==
    LET form == IF doc.hasForm THEN <<"form">> ELSE <<>>
        container == IF doc.hasContainer THEN <<"container">> ELSE <<>>
        indicator == IF doc.indicator THEN <<"indicator">> ELSE <<>>
    IN (IF ContainerEnclosesForm(doc)
        THEN container \o form ELSE form \o container) \o indicator

\* className, id and role of an element; updateFormIndicator gives the
\* indicator its id
IndicatorId == <<"a", "i", "-", "f", "o", "r", "m", "-", "f", "i", "l", "l", "e", "r", "-", "i", "n", "d", "i", "c", "a", "t", "o", "r">>

ElementAttributes(doc, el) ==
    IF el = "form"
    THEN [tag |-> "form", className |-> doc.formClass, id |-> EmptyString,
          role |-> EmptyString, data |-> {}]
    ELSE IF el = "container"
    THEN [tag |-> "div", className |-> doc.containerClass, id |-> EmptyString,
          role |-> EmptyString, data |-> {}]
    ELSE [tag |-> "div", className |-> EmptyString, id |-> IndicatorId,
          role |-> EmptyString, data |-> {}]

\* el.querySelectorAll('input, textarea, select'), in document order
InputsOf(doc, el) ==
    IF el = "form" THEN {i \in DOMAIN doc.inputs : doc.inputs[i].inForm}
    ELSE IF el = "container"
    THEN {i \in DOMAIN doc.inputs : doc.inputs[i].inContainer}
    ELSE {}

\* the members of a set of naturals in ascending order
RECURSIVE Ascending(_)
Ascending(S) ==
    IF S = {} THEN <<>>
    ELSE LET least == CHOOSE x \in S : \A y \in S : x <= y
         IN <<least>> \o Ascending(S \ {least})

JobFieldKeywords ==
    <<<<"f", "i", "r", "s", "t", " ", "n", "a", "m", "e">>, <<"l", "a", "s", "t", " ", "n", "a", "m", "e">>, <<"e", "m", "a", "i", "l">>, <<"p", "h", "o", "n", "e">>, <<"r", "e", "s", "u", "m", "e">>,
      <<"c", "v">>, <<"e", "x", "p", "e", "r", "i", "e", "n", "c", "e">>, <<"e", "d", "u", "c", "a", "t", "i", "o", "n">>, <<"c", "o", "v", "e", "r", " ", "l", "e", "t", "t", "e", "r">>, <<"s", "a", "l", "a", "r", "y">>,
      <<"s", "k", "i", "l", "l", "s">>, <<"p", "o", "r", "t", "f", "o", "l", "i", "o">>, <<"l", "i", "n", "k", "e", "d", "i", "n">>, <<"g", "i", "t", "h", "u", "b">>, <<"y", "e", "a", "r", "s">>,
      <<"d", "e", "g", "r", "e", "e">>>>

\* input.name || input.id || input.placeholder || ''
FieldName(input) ==
    IF input.name # EmptyString THEN input.name
    ELSE IF input.id # EmptyString THEN input.id
    ELSE input.placeholder

HasJobFormFieldsAlways(doc, el) == TRUE

\* hasJobFormFields: an input of the container is named after a job field
HasJobFormFields(doc, el) ==
    \E k \in DOMAIN JobFieldKeywords : \E i \in InputsOf(doc, el) :
        StringIncludes(ToLowerCase(FieldName(doc.inputs[i])), JobFieldKeywords[k])

\* identifyField(input).category !== null
Classifies(input) == IdentifyField(input).category # "null"

\* calculateJobFieldScore: the classified inputs among the inputs
CalculateJobFieldScore(doc, inputs) ==
    IF inputs = {} THEN Ratio(0, 1)
    ELSE Ratio(Cardinality({i \in inputs : Classifies(doc.inputs[i])}),
               Cardinality(inputs))

StrongJobIndicators ==
    <<<<"a", "p", "p", "l", "i", "c", "a", "t", "i", "o", "n">>, <<"a", "p", "p", "l", "y">>, <<"r", "e", "s", "u", "m", "e">>, <<"c", "v">>, <<"c", "a", "r", "e", "e", "r">>,
      <<"h", "i", "r", "i", "n", "g">>, <<"c", "a", "n", "d", "i", "d", "a", "t", "e">>, <<"a", "p", "p", "l", "i", "c", "a", "n", "t">>, <<"j", "o", "b", " ", "a", "p", "p", "l", "i", "c", "a", "t", "i", "o", "n">>,
      <<"e", "m", "p", "l", "o", "y", "m", "e", "n", "t">>>>

MediumJobIndicators ==
    <<<<"j", "o", "b">>, <<"p", "o", "s", "i", "t", "i", "o", "n">>, <<"w", "o", "r", "k", " ", "e", "x", "p", "e", "r", "i", "e", "n", "c", "e">>, <<"e", "d", "u", "c", "a", "t", "i", "o", "n">>,
      <<"c", "o", "n", "t", "a", "c", "t", " ", "u", "s">>, <<"g", "e", "t", " ", "i", "n", " ", "t", "o", "u", "c", "h">>, <<"j", "o", "i", "n", " ", "u", "s">>, <<"o", "p", "p", "o", "r", "t", "u", "n", "i", "t", "i", "e", "s">>>>

JobUrlKeywords ==
    <<<<"c", "a", "r", "e", "e", "r">>, <<"j", "o", "b">>, <<"a", "p", "p", "l", "y">>, <<"h", "i", "r", "i", "n", "g">>, <<"e", "m", "p", "l", "o", "y", "m", "e", "n", "t">>,
      <<"o", "p", "p", "o", "r", "t", "u", "n", "i", "t", "i", "e", "s">>>>

SomeIncluded(text, keywords) ==
    \E k \in DOMAIN keywords : StringIncludes(text, keywords[k])

\* isJobApplicationForm: the confidence, in tenths, is above 0.3
ConfidenceThreshold == 3

\* the combined score of isJobApplicationForm, in tenths
FormConfidence(doc) ==
    LET attrs == ElementAttributes(doc, "form")
        allText == ToLowerCase(doc.formText) \o <<" ">> \o
                   ToLowerCase(attrs.className) \o <<" ">> \o
                   ToLowerCase(attrs.id) \o <<" ">> \o
                   ToLowerCase(doc.formAction)
    IN  (IF SomeIncluded(allText, StrongJobIndicators) THEN 6 ELSE 0) +
        (IF SomeIncluded(allText, MediumJobIndicators) THEN 2 ELSE 0) +
        (IF SomeIncluded(ToLowerCase(doc.url), JobUrlKeywords) THEN 2 ELSE 0) +
        (IF HasJobFormFields(doc, "form") THEN 3 ELSE 0) +
        (IF RatioGreater(CalculateJobFieldScore(doc, InputsOf(doc, "form")),
                         Ratio(5, 10))
         THEN 2 ELSE 0)

\* mutant: a score of exactly 0.3 qualifies
IsJobApplicationFormFromThreshold(doc) ==
    FormConfidence(doc) >= ConfidenceThreshold

IsJobApplicationForm(doc) ==
    FormConfidence(doc) > ConfidenceThreshold

\* potentialSelectors: attribute-contains, class and attribute selectors
PotentialSelectors ==
    <<[on |-> "class*", value |-> <<"f", "o", "r", "m">>],
      [on |-> "class*", value |-> <<"a", "p", "p", "l", "i", "c", "a", "t", "i", "o", "n">>],
      [on |-> "id*", value |-> <<"f", "o", "r", "m">>],
      [on |-> "id*", value |-> <<"a", "p", "p", "l", "i", "c", "a", "t", "i", "o", "n">>],
      [on |-> "class*", value |-> <<"j", "o", "b">>],
      [on |-> "class*", value |-> <<"c", "a", "r", "e", "e", "r">>],
      [on |-> "class*", value |-> <<"a", "p", "p", "l", "y">>],
      [on |-> "class*", value |-> <<"c", "a", "n", "d", "i", "d", "a", "t", "e">>],
      [on |-> "class", value |-> <<"a", "p", "p", "l", "i", "c", "a", "t", "i", "o", "n", "-", "f", "o", "r", "m">>],
      [on |-> "class", value |-> <<"j", "o", "b", "-", "f", "o", "r", "m">>],
      [on |-> "class", value |-> <<"a", "p", "p", "l", "y", "-", "f", "o", "r", "m">>],
      [on |-> "class", value |-> <<"c", "o", "n", "t", "a", "c", "t", "-", "f", "o", "r", "m">>],
      [on |-> "role", value |-> <<"f", "o", "r", "m">>],
      [on |-> "data", value |-> <<"d", "a", "t", "a", "-", "f", "o", "r", "m">>],
      [on |-> "data", value |-> <<"d", "a", "t", "a", "-", "a", "p", "p", "l", "i", "c", "a", "t", "i", "o", "n">>]>>

\* element.matches(selector) for the selectors of potentialSelectors
MatchesSelector(attrs, sel) ==
    IF sel.on = "class*" THEN StringIncludes(attrs.className, sel.value)
    ELSE IF sel.on = "id*" THEN StringIncludes(attrs.id, sel.value)
    ELSE IF sel.on = "class" THEN sel.value \in Split(attrs.className, Whitespace)
    ELSE IF sel.on = "role" THEN attrs.role = sel.value
    ELSE sel.value \in attrs.data

\* document.querySelectorAll(potentialSelectors.join(', '))
PotentialForms(doc) ==
    SelectSeq(Elements(doc),
              LAMBDA el : \E k \in DOMAIN PotentialSelectors :
                  MatchesSelector(ElementAttributes(doc, el), PotentialSelectors[k]))

\* mapFormFields and mapVirtualFormFields: fields[category][type] is the
\* last of the inputs that classify to it
MapFields(doc, inputs) ==
    LET info(i) == IdentifyField(doc.inputs[inputs[i]])
        mapped == {i \in DOMAIN inputs : info(i).category # "null"}
        last == {i \in mapped : \A k \in mapped :
                    (info(k).category = info(i).category /\
                     info(k).type = info(i).type) => k <= i}
    IN {[category |-> info(i).category, type |-> info(i).type,
         element |-> inputs[i], confidence |-> info(i).confidence] : i \in last}

\* the forms of the document found to be job application forms
JobForms(doc) ==
    IF doc.hasForm /\ IsJobApplicationForm(doc)
    THEN <<[element |-> "form", isVirtual |-> FALSE,
            inputs |-> Ascending(InputsOf(doc, "form"))]>>
    ELSE <<>>

\* the containers added after the forms: with job fields and not a form
\* that is already on the list
RECURSIVE AddContainers(_, _, _, _)
AddContainers(doc, detectedForms, potentialForms, index) ==
    IF index > Len(potentialForms) THEN detectedForms
    ELSE LET container == potentialForms[index]
         IN AddContainers(doc,
                IF /\ HasJobFormFields(doc, container)
                   /\ \A k \in DOMAIN detectedForms :
                          detectedForms[k].element # container
                THEN Append(detectedForms,
                            [element |-> container, isVirtual |-> FALSE,
                             inputs |-> Ascending(InputsOf(doc, container))])
                ELSE detectedForms,
                potentialForms, index + 1)

\* findNearbyInputs: the other inputs whose centre is within the radius
ClusterRadius == 200

FindNearbyInputs(doc, element, radius) ==
    {i \in DOMAIN doc.inputs :
        /\ i # element
        /\ (doc.inputs[i].x - doc.inputs[element].x) *
           (doc.inputs[i].x - doc.inputs[element].x) +
           (doc.inputs[i].y - doc.inputs[element].y) *
           (doc.inputs[i].y - doc.inputs[element].y) <= radius * radius}

\* findInputCluster: breadth-first from the start input
RECURSIVE ClusterFrom(_, _, _)
ClusterFrom(doc, cluster, queue) ==
    IF queue = <<>> THEN cluster
    ELSE LET nearby == Ascending(FindNearbyInputs(doc, Head(queue), ClusterRadius)
                                     \ Range(cluster))
         IN ClusterFrom(doc, cluster \o nearby, Tail(queue) \o nearby)

FindInputCluster(doc, startInput) ==
    ClusterFrom(doc, <<startInput>>, <<startInput>>)

IsJobInputClusterAlways(doc, inputs) == TRUE

\* isJobInputCluster: validFields.length >= Math.ceil(inputs.length * 0.6)
IsJobInputCluster(doc, inputs) ==
    Cardinality({i \in DOMAIN inputs : Classifies(doc.inputs[inputs[i]])})
        >= (6 * Len(inputs) + 9) \div 10

MinClusterSize == 3

\* detectInputClusters: every input of the document that is not yet
\* processed starts a cluster
RECURSIVE DetectInputClusters(_, _, _, _)
DetectInputClusters(doc, detectedForms, processedInputs, input) ==
    IF input > Len(doc.inputs) THEN detectedForms
    ELSE IF input \in processedInputs
         THEN DetectInputClusters(doc, detectedForms, processedInputs, input + 1)
    ELSE LET cluster == FindInputCluster(doc, input)
         IN IF Len(cluster) >= MinClusterSize /\ IsJobInputCluster(doc, cluster)
            THEN DetectInputClusters(doc,
                     Append(detectedForms,
                            [element |-> "cluster", isVirtual |-> TRUE,
                             inputs |-> cluster]),
                     processedInputs \cup Range(cluster), input + 1)
            ELSE DetectInputClusters(doc, detectedForms, processedInputs, input + 1)

\* this.forms after detectJobForms
DetectedFormGroups(doc) ==
    DetectInputClusters(doc,
        AddContainers(doc, JobForms(doc), PotentialForms(doc), 1), {}, 1)

\* this.formFields after detectJobForms, one field map for every group
DetectedFormFields(doc, detectedForms) ==
    [k \in DOMAIN detectedForms |-> MapFields(doc, detectedForms[k].inputs)]

\* updateFormIndicator on the document
DocumentAfterDetection(doc, detectedForms) ==
    [doc EXCEPT !.indicator = (Len(detectedForms) > 0)]

(***************************************************************************)
(* Discovery passes on a document.                                         *)
(***************************************************************************)
\* the documents explored: MinInputs..MaxInputs inputs in a column, named
\* after one of the lists of NameOrders, the last ones anonymous
\* the gaps between the centres of consecutive inputs: uniform, or narrow
\* with one wide gap after input b
NarrowGap == 30
MediumGap == 120
WideGap == 250

Layouts(n) ==
    {[i \in 1..(n - 1) |-> g] : g \in {NarrowGap, MediumGap, WideGap}} \cup
    {[i \in 1..(n - 1) |-> IF i = b THEN WideGap ELSE NarrowGap] : b \in 1..(n - 1)}

RECURSIVE SumTo(_, _)
SumTo(gaps, i) == IF i = 0 THEN 0 ELSE gaps[i] + SumTo(gaps, i - 1)

FormClasses == {EmptyString, <<"a", "p", "p", "l", "i", "c", "a", "t", "i", "o", "n", "-", "f", "o", "r", "m">>, <<"s", "i", "g", "n", "u", "p", "-", "f", "o", "r", "m">>}

ContainerClass == <<"j", "o", "b", "-", "s", "e", "c", "t", "i", "o", "n">>

PageUrl == <<"h", "t", "t", "p", "s", ":", "/", "/", "e", "x", "a", "m", "p", "l", "e", ".", "c", "o", "m", "/", "o", "p", "e", "n", "i", "n", "g", "s">>

\* the container holds no input, the first two inputs, or every input
ContainerSizes(n) == {0, 2, n}

FormSizes(n) == {0, 2, n}

Document(n, naming, anonymous, gaps, formSize, formClass, containerSize) ==
    [url |-> PageUrl,
     hasForm |-> formSize > 0,
     formClass |-> formClass,
     formText |-> EmptyString,
     formAction |-> EmptyString,
     hasContainer |-> containerSize > 0,
     containerClass |-> ContainerClass,
     indicator |-> FALSE,
     inputs |-> [i \in 1..n |->
         [name |-> IF i > n - anonymous THEN AnonymousName
                   ELSE NameOrders[naming][i],
          id |-> EmptyString, placeholder |-> EmptyString,
          label |-> EmptyString, ariaLabel |-> EmptyString,
          title |-> EmptyString,
          x |-> 100, y |-> 100 + SumTo(gaps, i - 1),
          inForm |-> i <= formSize,
          inContainer |-> i <= containerSize]]]

Documents ==
    {Document(n, naming, anonymous, gaps, formSize, formClass, containerSize) :
        <<n, naming, anonymous, gaps, formSize, formClass, containerSize>> \in
        UNION {{n} \X (DOMAIN NameOrders) \X (0..n) \X Layouts(n) \X FormSizes(n)
               \X FormClasses \X ContainerSizes(n) :
               n \in MinInputs..MaxInputs}}

DiscoveryInit ==
    /\ QuiescentSession
    /\ ComponentsIdle
    /\ page = <<>>
    /\ resolution = NoResolution
    /\ dropdown = NoDropdown
    /\ document \in {d \in Documents : d.hasForm \/ d.formClass = EmptyString}
    /\ detection = NoDetection

\* this.forms and this.formFields after a pass that found detectedForms
DetectionResult(doc, detectedForms, before) ==
    [forms |-> detectedForms,
     formFields |-> DetectedFormFields(doc, detectedForms),
     passes |-> before.passes + 1,
     mutated |-> FALSE,
     rescanned |-> before.passes > 0 /\ ~before.mutated]

\* detectJobForms with updateFormIndicator
DetectionPass ==
    /\ detection.passes < MaxPasses
    /\ detection' = DetectionResult(document, DetectedFormGroups(document), detection)
    /\ document' = DocumentAfterDetection(document, detection'.forms)
    /\ UNCHANGED <<sessionVars, fill, retry, resolverVars, selectVars,
                   componentVars>>

\* the page's own script replaces the name of the last named input
\* between two passes
NamedInputs(doc) == {i \in DOMAIN doc.inputs : doc.inputs[i].name # AnonymousName}

RenameInput ==
    /\ detection.passes \in 1..(MaxPasses - 1)
    /\ ~detection.mutated
    /\ NamedInputs(document) # {}
    /\ LET i == CHOOSE i \in NamedInputs(document) :
                    \A k \in NamedInputs(document) : k <= i
       IN document' = [document EXCEPT !.inputs[i].name = AnonymousName]
    /\ detection' = [detection EXCEPT !.mutated = TRUE]
    /\ UNCHANGED <<sessionVars, fill, retry, resolverVars, selectVars,
                   componentVars>>

NextDiscovery ==
    \/ DetectionPass
    \/ RenameInput

DiscoverySpec == DiscoveryInit /\ [][NextDiscovery]_vars

(***************************************************************************)
(* The selector resolver: getElementSelector on an element of a tree of    *)
(* elements, and the elements a selector matches (querySelectorAll).       *)
(* A tree is the sequence of the elements under the body in document       *)
(* order, each with its tag, attributes and parent (0: the body).  A       *)
(* selector is a sequence of compound selectors joined by the child        *)
(* combinator " > ".                                                       *)
(***************************************************************************)
InvalidSelectorCharacters == {"[", "]", "{", "}", ":", "(", ")"} \cup Whitespace

IsValidCSSSelectorAlways(id) == TRUE

\* isValidCSSSelector: !/^[0-9]/.test(id) && !/[\[\]{}:()\s]/.test(id)
IsValidCSSSelector(id) ==
    /\ ~(id # <<>> /\ id[1] \in Digits)
    /\ Range(id) \cap InvalidSelectorCharacters = {}

\* isValidCSSClass
IsValidCSSClass(className) ==
    /\ Len(className) > 0
    /\ Range(className) \cap InvalidSelectorCharacters = {}

\* className.split(' ').filter(c => c.trim() && isValidCSSClass(c)), in the
\* order of the class attribute
ValidClasses(className) ==
    LET starts == {i \in DOMAIN className :
                      className[i] # " " /\ (i = 1 \/ className[i - 1] = " ")}
        classAt(i) ==
            SubSeq(className, i,
                   CHOOSE j \in i..Len(className) :
                       /\ \A k \in i..j : className[k] # " "
                       /\ (j = Len(className) \/ className[j + 1] = " "))
        ordered == Ascending(starts)
    IN SelectSeq([k \in DOMAIN ordered |-> classAt(ordered[k])], IsValidCSSClass)

\* a compound selector: tag (or "*"), #id, [attr="value"]..., .class...,
\* :nth-child(n)
Compound(tag, id, attributes, classes, nthChild) ==
    [tag |-> tag, id |-> id, attributes |-> attributes, classes |-> classes,
     nthChild |-> nthChild]

\* the value of an attribute of an element, <<>> when it has none
AttributeOf(node, attr) ==
    IF attr = "name" THEN node.name
    ELSE IF attr = "type" THEN node.type
    ELSE IF attr = "placeholder" THEN node.placeholder
    ELSE IF \E k \in DOMAIN node.dataAttributes : node.dataAttributes[k].name = attr
    THEN node.dataAttributes[CHOOSE k \in DOMAIN node.dataAttributes :
                                 node.dataAttributes[k].name = attr].value
    ELSE <<>>

\* siblings.indexOf(current) + 1
ChildIndex(tree, e) ==
    Cardinality({k \in DOMAIN tree : tree[k].parent = tree[e].parent /\ k <= e})

MatchesCompound(tree, e, compound) ==
    /\ compound.tag \in {"*", tree[e].tag}
    /\ compound.id \in {<<>>, tree[e].id}
    /\ \A a \in compound.attributes :
           /\ AttributeOf(tree[e], a.name) # <<>>
           /\ AttributeOf(tree[e], a.name) = a.value
    /\ compound.classes \subseteq Split(tree[e].className, Whitespace)
    /\ compound.nthChild \in {0, ChildIndex(tree, e)}

\* the element matches the first k compounds of the selector, the k-th
\* compound on the element itself and each one before on the parent
RECURSIVE MatchesSelectorPath(_, _, _, _)
MatchesSelectorPath(tree, e, selector, k) ==
    /\ MatchesCompound(tree, e, selector[k])
    /\ \/ k = 1
       \/ /\ tree[e].parent # 0
          /\ MatchesSelectorPath(tree, tree[e].parent, selector, k - 1)

\* document.querySelectorAll(selector)
QuerySelectorAll(tree, selector) ==
    {e \in DOMAIN tree : MatchesSelectorPath(tree, e, selector, Len(selector))}

MaxPathLength == 5

\* the compound generateRobustSelector gives one element of the path
PathCompound(tree, current) ==
    LET node == tree[current]
        classes == ValidClasses(node.className)
    IN IF node.id # <<>> /\ IsValidCSSSelector(node.id)
       THEN Compound(node.tag, node.id, {}, {}, 0)
       ELSE IF node.className # <<>>
       THEN Compound(node.tag, <<>>, {},
                     Range(SubSeq(classes, 1, IF Len(classes) < 2
                                              THEN Len(classes) ELSE 2)), 0)
       ELSE Compound(node.tag, <<>>, {}, {}, ChildIndex(tree, current))

\* generateRobustSelector: from the element up to the body, at most
\* MaxPathLength + 1 compounds
RECURSIVE RobustPath(_, _, _)
RobustPath(tree, current, path) ==
    IF current = 0 THEN path
    ELSE LET longer == <<PathCompound(tree, current)>> \o path
         IN IF Len(longer) > MaxPathLength THEN longer
            ELSE RobustPath(tree, tree[current].parent, longer)

GenerateRobustSelector(tree, element) == RobustPath(tree, element, <<>>)

IdSelector(node) == <<Compound("*", node.id, {}, {}, 0)>>

NameSelector(node) ==
    <<Compound("*", <<>>, {[name |-> "name", value |-> node.name]}, {}, 0)>>

DataSelector(attr) ==
    <<Compound("*", <<>>, {[name |-> attr.name, value |-> attr.value]}, {}, 0)>>

ClassSelector(node) ==
    <<Compound("*", <<>>, {}, Range(ValidClasses(node.className)), 0)>>

TypePlaceholderSelector(node) ==
    <<Compound(node.tag, <<>>,
               {[name |-> "type", value |-> node.type],
                [name |-> "placeholder", value |-> node.placeholder]}, {}, 0)>>

IsUnique(tree, selector) == Cardinality(QuerySelectorAll(tree, selector)) = 1

\* getElementSelector: the first strategy of the chain whose selector
\* matches one element, the structural path when there is none
GetElementSelector(tree, element) ==
    LET node == tree[element]
        uniqueData == {k \in DOMAIN node.dataAttributes :
                          IsUnique(tree, DataSelector(node.dataAttributes[k]))}
    IN IF /\ node.id # <<>>
          /\ IsValidCSSSelector(node.id)
          /\ IsUnique(tree, IdSelector(node))
       THEN [strategy |-> "id", selector |-> IdSelector(node)]
       ELSE IF node.name # <<>> /\ IsUnique(tree, NameSelector(node))
       THEN [strategy |-> "name", selector |-> NameSelector(node)]
       ELSE IF uniqueData # {}
       THEN [strategy |-> "data",
             selector |-> DataSelector(node.dataAttributes[
                              CHOOSE k \in uniqueData : \A m \in uniqueData : k <= m])]
       ELSE IF /\ node.className # <<>>
               /\ ValidClasses(node.className) # <<>>
               /\ IsUnique(tree, ClassSelector(node))
       THEN [strategy |-> "class", selector |-> ClassSelector(node)]
       ELSE IF /\ node.type # <<>>
               /\ node.placeholder # <<>>
               /\ IsUnique(tree, TypePlaceholderSelector(node))
       THEN [strategy |-> "type+placeholder",
             selector |-> TypePlaceholderSelector(node)]
       ELSE [strategy |-> "path", selector |-> GenerateRobustSelector(tree, element)]

(***************************************************************************)
(* Selector resolution on a tree: MinElements..MaxElements input controls  *)
(* under a chain of div elements, each input with one of the attribute     *)
(* profiles below.                                                         *)
(***************************************************************************)
Profile(id, name, data, className, placeholder) ==
    [tag |-> "input", id |-> id, name |-> name,
     dataAttributes |-> IF data = <<>> THEN <<>>
                        ELSE <<[name |-> "data-testid", value |-> data]>>,
     className |-> className, type |-> <<"t", "e", "x", "t">>, placeholder |-> placeholder]

Profiles ==
    {Profile(<<"e", "m", "a", "i", "l">>, <<>>, <<>>, <<>>, <<>>),
     Profile(<<"1", "s", "t">>, <<"f", "i", "r", "s", "t">>, <<>>, <<>>, <<>>),
     Profile(<<"1", "s", "t">>, <<>>, <<>>, <<>>, <<>>),
     Profile(<<"2", "n", "d">>, <<>>, <<>>, <<"f", "i", "e", "l", "d">>, <<>>),
     Profile(<<>>, <<"e", "m", "a", "i", "l">>, <<>>, <<>>, <<>>),
     Profile(<<>>, <<>>, <<"x">>, <<>>, <<>>),
     Profile(<<>>, <<>>, <<>>, <<"f", "i", "e", "l", "d", " ", "w", "i", "d", "e">>, <<>>),
     Profile(<<>>, <<>>, <<>>, <<>>, <<"E", "m", "a", "i", "l">>),
     Profile(<<>>, <<>>, <<>>, <<>>, <<>>)}

\* the inputs lie directly under one div, or under a chain of divs longer
\* than the structural path
Depths == {1, MaxPathLength + 1}

Wrapper(parent) ==
    [tag |-> "div", id |-> <<>>, name |-> <<>>, dataAttributes |-> <<>>,
     className |-> <<>>, type |-> <<>>, placeholder |-> <<>>, parent |-> parent]

Tree(depth, profiles) ==
    [k \in 1..(depth + Len(profiles)) |->
        IF k <= depth THEN Wrapper(k - 1)
        ELSE [tag |-> profiles[k - depth].tag,
              id |-> profiles[k - depth].id,
              name |-> profiles[k - depth].name,
              dataAttributes |-> profiles[k - depth].dataAttributes,
              className |-> profiles[k - depth].className,
              type |-> profiles[k - depth].type,
              placeholder |-> profiles[k - depth].placeholder,
              parent |-> depth]]

Trees ==
    {Tree(depth, profiles) :
        <<depth, profiles>> \in
            Depths \X UNION {[1..n -> Profiles] : n \in MinElements..MaxElements}}

ResolverInit ==
    /\ QuiescentSession
    /\ ComponentsIdle
    /\ document = NoDocument
    /\ detection = NoDetection
    /\ page \in Trees
    /\ resolution = NoResolution
    /\ dropdown = NoDropdown

\* mapFormFields stores getElementSelector(input); the stored selector is
\* then queried on the unchanged tree
ResolveSelector(element) ==
    /\ page[element].tag = "input"
    /\ LET resolved == GetElementSelector(page, element)
       IN resolution' = [element |-> element,
                         strategy |-> resolved.strategy,
                         selector |-> resolved.selector,
                         matches |-> QuerySelectorAll(page, resolved.selector)]
    /\ UNCHANGED <<sessionVars, fill, retry, discoveryVars, page, selectVars,
                   componentVars>>

NextResolver == \E element \in DOMAIN page : ResolveSelector(element)

ResolverSpec == ResolverInit /\ [][NextResolver]_vars

(***************************************************************************)
(* Select filling: fillSelectField with shouldSkipDropdownFill and         *)
(* smartSelectMatch.  A select element is the sequence of its options and  *)
(* the position of the selected one; an option is named by its position in *)
(* element.options (from 1), and 0 stands for null and undefined.          *)
(***************************************************************************)
Letters == Range(UpperCaseLetters) \cup Range(LowerCaseLetters)

\* /^[a-zA-Z\s]+$/.test(s)
IsLettersAndBlanks(s) ==
    s # <<>> /\ \A i \in DOMAIN s : s[i] \in Letters \cup Whitespace

\* /^[a-z\s]+$/.test(s)
IsLowerCaseLettersAndBlanks(s) ==
    s # <<>> /\ \A i \in DOMAIN s : s[i] \in Range(LowerCaseLetters) \cup Whitespace

\* validOptions: options.filter(opt => opt.value && opt.text.trim())
ValidOptions(element) ==
    {i \in DOMAIN element.options :
        /\ element.options[i].value # <<>>
        /\ Trim(element.options[i].text) # <<>>}

\* options.find(test): the first of the options that passes
FindOption(options, Test(_)) ==
    IF \E i \in options : Test(i)
    THEN CHOOSE i \in options : Test(i) /\ \A j \in options : Test(j) => i <= j
    ELSE 0

\* opt.text.toLowerCase()
OptionText(element, i) == ToLowerCase(element.options[i].text)

IncludesSome(text, keywords) == \E k \in keywords : StringIncludes(text, k)

EthnicityKeywords ==
    {<<"a", "m", "e", "r", "i", "c", "a", "n", " ", "i", "n", "d", "i", "a", "n">>, <<"a", "s", "i", "a", "n">>, <<"b", "l", "a", "c", "k">>, <<"h", "i", "s", "p", "a", "n", "i", "c">>, <<"w", "h", "i", "t", "e">>,
     <<"d", "e", "c", "l", "i", "n", "e">>, <<"p", "r", "e", "f", "e", "r", " ", "n", "o", "t">>}

CategoricalKeywords ==
    EthnicityKeywords \cup
    {<<"s", "e", "l", "e", "c", "t", ".", ".", ".">>, <<"b", "a", "c", "h", "e", "l", "o", "r">>, <<"m", "a", "s", "t", "e", "r">>, <<"h", "i", "g", "h", " ", "s", "c", "h", "o", "o", "l">>, <<"d", "o", "c", "t", "o", "r", "a", "t", "e">>}

ReasonableSimilarity == Ratio(3, 10)

ShouldSkipDropdownFill(element, value, options) ==
    LET valueLower == ToLowerCase(value)
        isDemographicDropdown ==
            \E i \in options : IncludesSome(OptionText(element, i), CategoricalKeywords)
        isPersonalName ==
            /\ IsLettersAndBlanks(value)
            /\ SplitLength(value, {" "}) >= 2
            /\ ~StringIncludes(value, <<"b", "a", "c", "h", "e", "l", "o", "r">>)
            /\ ~StringIncludes(value, <<"m", "a", "s", "t", "e", "r">>)
        hasReasonableMatch ==
            \E i \in options :
                \/ StringIncludes(OptionText(element, i), valueLower)
                \/ StringIncludes(valueLower, OptionText(element, i))
                \/ RatioGreater(CalculateSimilarity(OptionText(element, i), valueLower),
                                ReasonableSimilarity)
    IN IF /\ StringIncludes(valueLower, <<"@">>)
          /\ ~\E i \in options :
                 IncludesSome(OptionText(element, i), {<<"e", "m", "a", "i", "l">>, <<"@">>})
       THEN TRUE
       ELSE IF isDemographicDropdown /\ isPersonalName THEN TRUE
       ELSE IF ~hasReasonableMatch /\ Cardinality(options) > 2 THEN TRUE
       ELSE FALSE

SmartSelectMatch(element, options, value) ==
    LET valueLower == Trim(ToLowerCase(value))
        Has(k) == StringIncludes(valueLower, k)
        TextHas(i, k) == StringIncludes(OptionText(element, i), k)
        isDemographicDropdown ==
            \E i \in options : IncludesSome(OptionText(element, i), EthnicityKeywords)
    IN IF value = <<>> \/ options = {} THEN 0
       ELSE IF /\ isDemographicDropdown
               /\ (Has(<<"@">>) \/ IsLowerCaseLettersAndBlanks(valueLower))
       THEN FindOption(options, LAMBDA i :
                \/ TextHas(i, <<"d", "e", "c", "l", "i", "n", "e">>)
                \/ TextHas(i, <<"p", "r", "e", "f", "e", "r", " ", "n", "o", "t">>)
                \/ TextHas(i, <<"n", "o", "t", " ", "s", "p", "e", "c", "i", "f", "i", "e", "d">>))
       ELSE IF \/ Has(<<"a", "u", "t", "h", "o", "r", "i", "z", "e", "d">>) \/ Has(<<"e", "l", "i", "g", "i", "b", "l", "e">>) \/ Has(<<"c", "i", "t", "i", "z", "e", "n">>)
               \/ (Has(<<"y", "e", "s">>) /\ Has(<<"w", "o", "r", "k">>))
       THEN FindOption(options, LAMBDA i :
                \/ TextHas(i, <<"y", "e", "s">>) \/ TextHas(i, <<"a", "u", "t", "h", "o", "r", "i", "z", "e", "d">>)
                \/ TextHas(i, <<"e", "l", "i", "g", "i", "b", "l", "e">>) \/ TextHas(i, <<"c", "i", "t", "i", "z", "e", "n">>)
                \/ TextHas(i, <<"l", "e", "g", "a", "l", "l", "y">>) \/ TextHas(i, <<"a", "b", "l", "e", " ", "t", "o", " ", "w", "o", "r", "k">>)
                \/ (TextHas(i, <<"n", "o">>) /\ TextHas(i, <<"s", "p", "o", "n", "s", "o", "r">>))
                \/ TextHas(i, <<"d", "o", " ", "n", "o", "t", " ", "r", "e", "q", "u", "i", "r", "e">>))
       ELSE IF \/ Has(<<"s", "p", "o", "n", "s", "o", "r">>) \/ Has(<<"v", "i", "s", "a">>)
               \/ (Has(<<"r", "e", "q", "u", "i", "r", "e">>) /\ Has(<<"w", "o", "r", "k">>))
       THEN FindOption(options, LAMBDA i :
                \/ TextHas(i, <<"s", "p", "o", "n", "s", "o", "r">>) \/ TextHas(i, <<"v", "i", "s", "a">>)
                \/ TextHas(i, <<"r", "e", "q", "u", "i", "r", "e">>)
                \/ (TextHas(i, <<"y", "e", "s">>) /\ TextHas(i, <<"f", "u", "t", "u", "r", "e">>)))
       ELSE IF Has(<<"r", "e", "l", "o", "c", "a", "t", "e">>) \/ Has(<<"l", "o", "c", "a", "t", "i", "o", "n">>)
       THEN FindOption(options, LAMBDA i :
                TextHas(i, <<"y", "e", "s">>) \/ TextHas(i, <<"w", "i", "l", "l", "i", "n", "g">>) \/ TextHas(i, <<"o", "p", "e", "n">>))
       ELSE IF Has(<<"s", "e", "n", "i", "o", "r">>) \/ Has(<<"5", "+">>) \/ Has(<<"5", "-">>)
       THEN FindOption(options, LAMBDA i :
                \/ TextHas(i, <<"s", "e", "n", "i", "o", "r">>) \/ TextHas(i, <<"5", "+">>)
                \/ TextHas(i, <<"7", "+">>) \/ TextHas(i, <<"l", "e", "a", "d">>)
                \/ TextHas(i, <<"5", "-">>) \/ TextHas(i, <<"3", "-", "5">>))
       ELSE IF Has(<<"m", "a", "s", "t", "e", "r">>)
       THEN FindOption(options, LAMBDA i : TextHas(i, <<"m", "a", "s", "t", "e", "r">>))
       ELSE IF Has(<<"b", "a", "c", "h", "e", "l", "o", "r">>)
       THEN FindOption(options, LAMBDA i : TextHas(i, <<"b", "a", "c", "h", "e", "l", "o", "r">>))
       ELSE IF valueLower = <<"y", "e", "s">> \/ valueLower = <<"t", "r", "u", "e">>
       THEN FindOption(options, LAMBDA i : TextHas(i, <<"y", "e", "s">>))
       ELSE IF valueLower = <<"n", "o">> \/ valueLower = <<"f", "a", "l", "s", "e">>
       THEN FindOption(options, LAMBDA i : TextHas(i, <<"n", "o">>))
       ELSE 0

\* the option fillSelectField settles on once the fill is not skipped:
\* exact match, then partial match, then smartSelectMatch
MatchedOption(element, value, validOptions) ==
    LET valueLower == ToLowerCase(value)
        exact == FindOption(validOptions, LAMBDA i :
                     \/ OptionText(element, i) = valueLower
                     \/ ToLowerCase(element.options[i].value) = valueLower)
        partial == FindOption(validOptions, LAMBDA i :
                     \/ StringIncludes(OptionText(element, i), valueLower)
                     \/ StringIncludes(valueLower, OptionText(element, i)))
    IN IF exact # 0 THEN exact
       ELSE IF partial # 0 THEN partial
       ELSE SmartSelectMatch(element, validOptions, value)

\* fillSelectField(element, value): the outcome of the call
FillSelectField(element, value) ==
    LET validOptions == ValidOptions(element)
        skipped == ShouldSkipDropdownFill(element, value, validOptions)
        matchedOption == IF skipped THEN 0
                         ELSE MatchedOption(element, value, validOptions)
    IN [element |-> IF matchedOption # 0
                    THEN [element EXCEPT !.selectedIndex = matchedOption]
                    ELSE element,
        value |-> value,
        skipped |-> skipped,
        matchedOption |-> matchedOption,
        pc |-> "done"]

Option(value, text) == [value |-> value, text |-> text]

\* the placeholder a select starts with: no value, so never a valid option
Placeholder == Option(<<>>, <<"S", "e", "l", "e", "c", "t", ".", ".", ".">>)

DemographicCategories ==
    <<<<"W", "h", "i", "t", "e">>, <<"A", "s", "i", "a", "n">>, <<"B", "l", "a", "c", "k", " ", "o", "r", " ", "A", "f", "r", "i", "c", "a", "n", " ", "A", "m", "e", "r", "i", "c", "a", "n">>, <<"H", "i", "s", "p", "a", "n", "i", "c", " ", "o", "r", " ", "L", "a", "t", "i", "n", "o">>>>

DemographicChoices == Append(DemographicCategories, <<"D", "e", "c", "l", "i", "n", "e", " ", "t", "o", " ", "s", "e", "l", "f", "-", "i", "d", "e", "n", "t", "i", "f", "y">>)

DegreeLevels == <<<<"B", "a", "c", "h", "e", "l", "o", "r", "'", "s">>, <<"M", "a", "s", "t", "e", "r", "'", "s">>, <<"P", "h", "D">>>>

\* an option whose value is its text in lower case
OptionsOf(texts) == [i \in DOMAIN texts |-> Option(ToLowerCase(texts[i]), texts[i])]

\* the subsequence of seq at the positions of picked
RECURSIVE Pick(_, _, _)
Pick(seq, picked, i) ==
    IF i > Len(seq) THEN <<>>
    ELSE IF i \in picked THEN <<seq[i]>> \o Pick(seq, picked, i + 1)
    ELSE Pick(seq, picked, i + 1)

OptionLists ==
    LET choices ==
            {Pick(DemographicChoices, picked, 1) :
                picked \in {s \in SUBSET (DOMAIN DemographicChoices) :
                               Cardinality(s) \in MinOptions..MaxOptions}}
        lists == {OptionsOf(texts) : texts \in choices \cup {DegreeLevels}}
    IN lists \cup {<<Placeholder>> \o options : options \in lists}

PersonalNames == {<<"I", "a", "n">>, <<"J", "o", "h", "n">>, <<"J", "a", "n", "e", " ", "D", "o", "e">>}

EmailValues == {<<"j", "a", "n", "e", "@", "e", "x", "a", "m", "p", "l", "e", ".", "c", "o", "m">>}

DegreeValues == {<<"M", "a", "s", "t", "e", "r", " ", "o", "f", " ", "C", "o", "m", "p", "u", "t", "e", "r", " ", "S", "c", "i", "e", "n", "c", "e">>, <<"m", "a", "s", "t", "e", "r", " ", "o", "f", " ", "s", "c", "i", "e", "n", "c", "e">>, <<"B", "a", "c", "h", "e", "l", "o", "r", " ", "o", "f", " ", "A", "r", "t", "s">>}

AnswerValues == {<<"A", "s", "i", "a", "n">>, <<"Y", "e", "s">>, <<"S", "e", "n", "i", "o", "r">>}

SourceValues == PersonalNames \cup EmailValues \cup DegreeValues \cup AnswerValues

\* a select-one shows its first option until another is selected
SelectInit ==
    /\ QuiescentSession
    /\ ComponentsIdle
    /\ document = NoDocument
    /\ detection = NoDetection
    /\ page = <<>>
    /\ resolution = NoResolution
    /\ dropdown \in [element : [options : OptionLists, selectedIndex : {1}],
                     value : SourceValues,
                     skipped : {FALSE},
                     matchedOption : {0},
                     pc : {"idle"}]

\* fillField hands the trimmed source value to fillSelectField
FillSelect ==
    /\ dropdown.pc = "idle"
    /\ dropdown' = FillSelectField(dropdown.element, Trim(dropdown.value))
    /\ UNCHANGED <<sessionVars, fill, retry, discoveryVars, resolverVars,
                   componentVars>>

NextSelect == FillSelect

SelectSpec == SelectInit /\ [][NextSelect]_vars

(***************************************************************************)
(* fillField and fillTextField on a page of text controls and checkboxes.  *)
(* The events the writer dispatches run listeners of the host page, which  *)
(* are no part of the agent; the one host reaction modelled is the         *)
(* autocomplete list of a location field and the click on its option,      *)
(* which puts the option's text into the field.                            *)
(***************************************************************************)
MaxFillCalls == 2

LocationWords == {<<"l", "o", "c", "a", "t", "i", "o", "n">>, <<"c", "i", "t", "y">>, <<"a", "d", "d", "r", "e", "s", "s">>, <<"w", "h", "e", "r", "e">>}

\* isLocationField
IsLocationField(element) ==
    LET fieldText == ToLowerCase(element.name \o <<" ">> \o element.id \o <<" ">>
                                 \o element.placeholder \o <<" ">>
                                 \o element.className \o <<" ">>
                                 \o element.ariaLabel)
    IN  \E word \in LocationWords : StringIncludes(fieldText, word)

\* location.match(/^[^,]+,\s*[A-Z]{2}$/)
IsCityState(location) ==
    \E c \in DOMAIN location :
        /\ c >= 2
        /\ location[c] = ","
        /\ \A k \in 1..(c - 1) : location[k] # ","
        /\ Len(location) >= c + 2
        /\ \A k \in (c + 1)..(Len(location) - 2) : location[k] \in Whitespace
        /\ \A k \in (Len(location) - 1)..Len(location) :
               \E u \in DOMAIN UpperCaseLetters : UpperCaseLetters[u] = location[k]

CommaBlank == <<",", " ">>

\* location.split(', ')
RECURSIVE SplitCommaBlank(_)
SplitCommaBlank(s) ==
    IF \E i \in 1..(Len(s) - 1) : SubSeq(s, i, i + 1) = CommaBlank
    THEN LET i == CHOOSE i \in 1..(Len(s) - 1) :
                      /\ SubSeq(s, i, i + 1) = CommaBlank
                      /\ \A j \in 1..(i - 1) : SubSeq(s, j, j + 1) # CommaBlank
         IN  <<SubSeq(s, 1, i - 1)>> \o SplitCommaBlank(SubSeq(s, i + 2, Len(s)))
    ELSE <<s>>

StateExpansions ==
    {<<<<"A", "Z">>, <<"A", "r", "i", "z", "o", "n", "a">>>>, <<<<"C", "A">>, <<"C", "a", "l", "i", "f", "o", "r", "n", "i", "a">>>>,
     <<<<"N", "Y">>, <<"N", "e", "w", " ", "Y", "o", "r", "k">>>>, <<<<"T", "X">>, <<"T", "e", "x", "a", "s">>>>,
     <<<<"F", "L">>, <<"F", "l", "o", "r", "i", "d", "a">>>>, <<<<"W", "A">>, <<"W", "a", "s", "h", "i", "n", "g", "t", "o", "n">>>>,
     <<<<"G", "A">>, <<"G", "e", "o", "r", "g", "i", "a">>>>, <<<<"N", "C">>, <<"N", "o", "r", "t", "h", " ", "C", "a", "r", "o", "l", "i", "n", "a">>>>,
     <<<<"T", "N">>, <<"T", "e", "n", "n", "e", "s", "s", "e", "e">>>>}

UnitedStates == <<",", " ", "U", "n", "i", "t", "e", "d", " ", "S", "t", "a", "t", "e", "s">>

\* a missing array element in a template literal
Undefined == <<"u", "n", "d", "e", "f", "i", "n", "e", "d">>

GetLocationFormats(location) ==
    IF IsCityState(location)
    THEN LET parts == SplitCommaBlank(location)
             city == parts[1]
             state == IF Len(parts) >= 2 THEN parts[2] ELSE Undefined
             expanded == <<location, location \o UnitedStates,
                           city \o CommaBlank \o state \o UnitedStates>>
         IN  IF \E e \in StateExpansions : e[1] = state
             THEN LET name == (CHOOSE e \in StateExpansions : e[1] = state)[2]
                  IN  expanded \o <<city \o CommaBlank \o name,
                                    city \o CommaBlank \o name \o UnitedStates>>
             ELSE expanded
    ELSE <<location>>

\* targetLocation.toLowerCase().split(',')[0].trim()
TargetCity(targetLocation) ==
    LET lower == ToLowerCase(targetLocation)
    IN  IF \E i \in DOMAIN lower : lower[i] = ","
        THEN Trim(SubSeq(lower, 1,
                         (CHOOSE i \in DOMAIN lower :
                              /\ lower[i] = ","
                              /\ \A j \in 1..(i - 1) : lower[j] # ",") - 1))
        ELSE Trim(lower)

\* findMatchingLocationOption: the first option that holds the city, 0 for
\* none
FindMatchingLocationOption(options, targetLocation) ==
    LET hits == {i \in DOMAIN options :
                    StringIncludes(ToLowerCase(options[i]), TargetCity(targetLocation))}
    IN  IF hits = {} THEN 0
        ELSE CHOOSE i \in hits : \A j \in hits : i <= j

\* mutant: the value is written to every control of the target's type
SetValueOfEveryControl(controls, element, value) ==
    [c \in DOMAIN controls |->
        IF controls[c].type = controls[element].type
        THEN [controls[c] EXCEPT !.value = value]
        ELSE controls[c]]

\* element.value = value
SetValue(controls, element, value) ==
    [controls EXCEPT ![element].value = value]

TextControl(name, value) ==
    [type |-> "text", name |-> name, id |-> EmptyString,
     placeholder |-> EmptyString, className |-> EmptyString,
     ariaLabel |-> EmptyString, value |-> value, checked |-> FALSE]

Checkbox(name, checked) ==
    [type |-> "checkbox", name |-> name, id |-> EmptyString,
     placeholder |-> EmptyString, className |-> EmptyString,
     ariaLabel |-> EmptyString, value |-> <<"o", "n">>, checked |-> checked]

NameValues == {<<"A", "n", "n">>, <<" ", "A", "n", "n", " ">>, <<"B", "o", "b">>}

CityValues == {<<"T", "e", "m", "p", "e", ",", " ", "A", "Z">>, <<"A", "u", "s", "t", "i", "n">>}

\* the lists of suggestions the host page shows under a location field;
\* the empty list stands for no visible list
Dropdowns ==
    {<<>>, <<<<"P", "h", "o", "e", "n", "i", "x", ",", " ", "A", "Z", ",", " ", "U", "S", "A">>, <<"T", "e", "m", "p", "e", ",", " ", "A", "Z", ",", " ", "U", "S", "A">>>>}

\* the page: two text inputs, the second a location field, and a checkbox
Pages ==
    {<<TextControl(<<"f", "i", "r", "s", "t", "_", "n", "a", "m", "e">>, first), TextControl(<<"c", "i", "t", "y">>, city),
       Checkbox(<<"t", "e", "r", "m", "s">>, terms)>> :
        first \in {EmptyString, <<"A", "n", "n">>, <<"B", "o", "b">>},
        city \in {EmptyString} \cup CityValues,
        terms \in BOOLEAN}

TextControls(controls) == {c \in DOMAIN controls : controls[c].type = "text"}

TextFillInit ==
    /\ QuiescentSession
    /\ document = NoDocument
    /\ detection = NoDetection
    /\ page = <<>>
    /\ resolution = NoResolution
    /\ dropdown = NoDropdown
    /\ classified = NoClassified
    /\ popup = NoPopup
    /\ feedback = NoFeedback
    /\ coordinator = NoCoordinator
    /\ textFill \in [controls : Pages,
                     formFields : {[firstName |-> 1, city |-> 2]},
                     element : {0}, value : {EmptyString},
                     atCall : {<<>>}, formats : {<<>>}, format : {0},
                     calls : {0}, pc : {"idle"}]

TextFillUnchanged ==
    UNCHANGED <<sessionVars, fill, retry, discoveryVars, resolverVars,
                selectVars, classified, popup, feedback, coordinator>>

\* fillField(element, value): nothing happens for an empty value; the
\* value is trimmed and, for a text control, fillTextField focuses it
FillField(element, value) ==
    /\ textFill.pc \in {"idle", "done"}
    /\ textFill.calls < MaxFillCalls
    /\ textFill' = [textFill EXCEPT
                       !.element = element,
                       !.value = Trim(value),
                       !.atCall = textFill.controls,
                       !.formats = <<>>,
                       !.format = 0,
                       !.calls = @ + 1,
                       !.pc = IF value = EmptyString THEN "done" ELSE "focused"]
    /\ TextFillUnchanged

\* after 100 ms: select(), element.value = '', then the value is written
\* or, for a location field, the first format is typed
ClearAndWrite ==
    /\ textFill.pc = "focused"
    /\ LET element == textFill.element
           cleared == SetValue(textFill.controls, element, EmptyString)
       IN  IF IsLocationField(textFill.controls[element])
           THEN LET formats == GetLocationFormats(textFill.value)
                IN  textFill' = [textFill EXCEPT
                                    !.controls = SetValue(cleared, element, formats[1]),
                                    !.formats = formats,
                                    !.format = 1,
                                    !.pc = "autocomplete"]
           ELSE textFill' = [textFill EXCEPT
                                !.controls = SetValue(cleared, element, textFill.value),
                                !.pc = "settle"]
    /\ TextFillUnchanged

\* after 1000 ms a list with a matching option is there: the option is
\* clicked and the host page puts its text into the field
AutocompleteHit(options) ==
    /\ textFill.pc = "autocomplete"
    /\ FindMatchingLocationOption(options, textFill.value) # 0
    /\ textFill' = [textFill EXCEPT
                       !.controls = SetValue(textFill.controls, textFill.element,
                           options[FindMatchingLocationOption(options, textFill.value)]),
                       !.pc = "settle"]
    /\ TextFillUnchanged

\* no list or no matching option: the next format is typed, and after the
\* last one the value itself is written
AutocompleteMiss(options) ==
    /\ textFill.pc = "autocomplete"
    /\ FindMatchingLocationOption(options, textFill.value) = 0
    /\ IF textFill.format < Len(textFill.formats)
       THEN textFill' = [textFill EXCEPT
                            !.controls = SetValue(textFill.controls, textFill.element,
                                                  textFill.formats[textFill.format + 1]),
                            !.format = @ + 1]
       ELSE textFill' = [textFill EXCEPT
                            !.controls = SetValue(textFill.controls, textFill.element,
                                                  textFill.value),
                            !.pc = "settle"]
    /\ TextFillUnchanged

\* after 200 ms: element.blur()
Blur ==
    /\ textFill.pc = "settle"
    /\ textFill' = [textFill EXCEPT !.pc = "done"]
    /\ TextFillUnchanged

NextTextFill ==
    \/ \E element \in TextControls(textFill.controls) :
           \E value \in {EmptyString} \cup NameValues \cup CityValues :
               FillField(element, value)
    \/ ClearAndWrite
    \/ \E options \in Dropdowns : AutocompleteHit(options)
    \/ \E options \in Dropdowns : AutocompleteMiss(options)
    \/ Blur

TextFillSpec == TextFillInit /\ [][NextTextFill]_vars

(***************************************************************************)
(* The popup (popup.js): init, detectForms, fillForm, performOneClickApply *)
(* and the two buttons they share.  The popup's markup is no part of the   *)
(* sources at hand: PopupMarkup is the state the spec gives the buttons    *)
(* before any detection, both fill actions disabled.                       *)
(***************************************************************************)
PopupMarkup ==
    [fillDisabled |-> TRUE, applyDisabled |-> TRUE]

NoResponse == [kind |-> "null", formsFound |-> 0, formTypes |-> FALSE]

FormsResponse(n, types) == [kind |-> "object", formsFound |-> n, formTypes |-> types]

MaxFormsFound == 2

\* what sendMessageWithRetry(tab.id, {action: 'detectForms'}) resolves to
DetectResponses ==
    {NoResponse} \cup {FormsResponse(n, types) : n \in 0..MaxFormsFound, types \in BOOLEAN}

SigPageType == "Cannot detect forms on this page type"

SigCommunicate == "communicate with content script"

ErrPageType == {SigPageType}

ErrCommunicate == {SigCommunicate}

ErrOther == {"Network error"}

\* what detectForms catches: its own error for a chrome:// tab, and the
\* errors of sendMessageWithRetry
DetectErrors ==
    {ErrPageType, ErrCannotAccess, ErrContextInvalidated, ErrCommunicate, ErrOther}

\* the message detectForms shows for an error
DetectErrorMessage(message) ==
    IF Includes(message, SigCannotAccess)
    THEN "Cannot scan this page type. Navigate to a job application page."
    ELSE IF Includes(message, SigContextInvalidated)
    THEN "Extension needs refresh. Try reloading the page."
    ELSE IF Includes(message, SigCommunicate)
    THEN "Page communication error. Try refreshing the page."
    ELSE IF Includes(message, SigPageType)
    THEN "Navigate to a job application page to use this extension."
    ELSE "Unable to scan page"

\* mutant: any answer of the agent counts as forms detected
FormsDetectedAnyResponse(response) == response.kind = "object"

\* response && response.formsFound > 0
FormsDetected(response) ==
    response.kind = "object" /\ response.formsFound > 0

PopupOpened ==
    [pc |-> "loading",
     fillDisabled |-> PopupMarkup.fillDisabled,
     applyDisabled |-> PopupMarkup.applyDisabled,
     formsFound |-> 0,
     formStatus |-> "info-box",
     formStatusText |-> "Scanning",
     resumeId |-> FALSE,
     fillPc |-> "idle", fillText |-> "Fill Form",
     applyPc |-> "idle", applyText |-> "One-Click Apply"]

PopupInit ==
    /\ QuiescentSession
    /\ document = NoDocument
    /\ detection = NoDetection
    /\ page = <<>>
    /\ resolution = NoResolution
    /\ dropdown = NoDropdown
    /\ textFill = NoTextFill
    /\ classified = NoClassified
    /\ feedback = NoFeedback
    /\ coordinator = NoCoordinator
    /\ popup = PopupOpened

PopupUnchanged ==
    UNCHANGED <<sessionVars, fill, retry, discoveryVars, resolverVars,
                selectVars, textFill, classified, feedback, coordinator>>

\* init(): checkConnection, loadUserStats and loadResumes have settled, a
\* resume is selected or none is there; setupEventListeners attaches the
\* click listeners and detectForms starts and awaits the agent's answer
SetupEventListeners(resumeSelected) ==
    /\ popup.pc = "loading"
    /\ popup' = [popup EXCEPT !.pc = "detecting", !.resumeId = resumeSelected]
    /\ PopupUnchanged

\* detectForms: the agent has answered
DetectFormsResponds(response) ==
    /\ popup.pc = "detecting"
    /\ IF FormsDetected(response)
       THEN popup' = [popup EXCEPT
                         !.pc = "detected",
                         !.formsFound = response.formsFound,
                         !.formStatusText =
                             IF response.formTypes THEN "forms detected (types)"
                             ELSE "forms detected",
                         !.formStatus = "info-box success",
                         !.fillDisabled = FALSE,
                         !.applyDisabled = FALSE]
       ELSE popup' = [popup EXCEPT
                         !.pc = "detected",
                         !.formsFound = 0,
                         !.formStatusText = "No job application forms found",
                         !.formStatus = "info-box warning",
                         !.fillDisabled = TRUE]
    /\ PopupUnchanged

\* detectForms: the tab is no page to scan, or the message failed for good
DetectFormsFails(message) ==
    /\ popup.pc = "detecting"
    /\ popup' = [popup EXCEPT
                    !.pc = "detected",
                    !.formsFound = 0,
                    !.formStatusText = DetectErrorMessage(message),
                    !.formStatus = "info-box warning",
                    !.fillDisabled = TRUE,
                    !.applyDisabled = TRUE]
    /\ PopupUnchanged

\* a click on Fill Form: fillForm returns at once when the button is
\* disabled, and else disables it and starts
ClickFill ==
    /\ popup.pc # "loading"
    /\ popup.fillPc = "idle"
    /\ IF popup.fillDisabled
       THEN UNCHANGED popup
       ELSE popup' = [popup EXCEPT !.fillText = "Filling...",
                                   !.fillDisabled = TRUE,
                                   !.fillPc = "running"]
    /\ PopupUnchanged

\* fillForm comes to its end: no resume selected or a step failed, or the
\* agent reported success; finally sets the timer of 2 s
FillReturns(success) ==
    /\ popup.fillPc = "running"
    /\ popup.resumeId \/ ~success
    /\ popup' = [popup EXCEPT
                    !.fillText = IF success THEN "Filled Successfully" ELSE "Failed",
                    !.fillPc = "restoring"]
    /\ PopupUnchanged

\* the timer of fillForm's finally block
FillRestores ==
    /\ popup.fillPc = "restoring"
    /\ popup' = [popup EXCEPT !.fillText = "Fill Form",
                              !.fillDisabled = FALSE,
                              !.fillPc = "idle"]
    /\ PopupUnchanged

\* a click on One-Click Apply: performOneClickApply
ClickApply ==
    /\ popup.pc # "loading"
    /\ popup.applyPc = "idle"
    /\ IF popup.applyDisabled
       THEN UNCHANGED popup
       ELSE popup' = [popup EXCEPT !.applyText = "Applying...",
                                   !.applyDisabled = TRUE,
                                   !.applyPc = "running"]
    /\ PopupUnchanged

ApplyReturns(success) ==
    /\ popup.applyPc = "running"
    /\ popup.resumeId \/ ~success
    /\ popup' = [popup EXCEPT
                    !.applyText = IF success THEN "Applied Successfully!"
                                  ELSE "Apply Failed",
                    !.applyPc = "restoring"]
    /\ PopupUnchanged

\* the timer of 3 s after a success, of 2 s after a failure
ApplyRestores ==
    /\ popup.applyPc = "restoring"
    /\ popup' = [popup EXCEPT !.applyText = "One-Click Apply",
                              !.applyDisabled = FALSE,
                              !.applyPc = "idle"]
    /\ PopupUnchanged

NextPopup ==
    \/ \E resumeSelected \in BOOLEAN : SetupEventListeners(resumeSelected)
    \/ \E response \in DetectResponses : DetectFormsResponds(response)
    \/ \E message \in DetectErrors : DetectFormsFails(message)
    \/ ClickFill
    \/ \E success \in BOOLEAN : FillReturns(success)
    \/ FillRestores
    \/ ClickApply
    \/ \E success \in BOOLEAN : ApplyReturns(success)
    \/ ApplyRestores

PopupSpec == PopupInit /\ [][NextPopup]_vars

(***************************************************************************)
(* identifyField applied to the text signals of one input control.         *)
(***************************************************************************)
ClassifierNames ==
    {AnonymousName} \cup UNION {Range(NameOrders[k]) : k \in DOMAIN NameOrders}

ClassifierLabels ==
    {EmptyString, <<"E", "m", "a", "i", "l">>, <<"Y", "o", "u", "r", " ", "p", "h", "o", "n", "e">>, <<"Z", "i", "p">>, <<"W", "e", "b", "s", "i", "t", "e">>, <<"X", "y", "z">>}

ClassifierInputs ==
    {[TextSignalsOf(name) EXCEPT !.label = label] :
        name \in ClassifierNames, label \in ClassifierLabels}

ClassifierInit ==
    /\ QuiescentSession
    /\ document = NoDocument
    /\ detection = NoDetection
    /\ page = <<>>
    /\ resolution = NoResolution
    /\ dropdown = NoDropdown
    /\ textFill = NoTextFill
    /\ popup = NoPopup
    /\ feedback = NoFeedback
    /\ coordinator = NoCoordinator
    /\ classified \in [input : ClassifierInputs, result : {NoClassification},
                       pc : {"idle"}]

\* mapFormFields calls identifyField(input)
Identify ==
    /\ classified.pc = "idle"
    /\ classified' = [classified EXCEPT
                         !.result = IdentifyField(classified.input),
                         !.pc = "done"]
    /\ UNCHANGED <<sessionVars, fill, retry, discoveryVars, resolverVars,
                   selectVars, textFill, popup, feedback, coordinator>>

NextClassifier == Identify

ClassifierSpec == ClassifierInit /\ [][NextClassifier]_vars

(***************************************************************************)
(* detectJobForms on documents whose one form shows every combination of   *)
(* the five indicators of isJobApplicationForm.  The form has no class and *)
(* no id, so that no selector of potentialSelectors lists it as container. *)
(***************************************************************************)
FormTexts == {EmptyString, <<"A", "p", "p", "l", "y">>, <<"O", "p", "e", "n", " ", "p", "o", "s", "i", "t", "i", "o", "n">>, <<"J", "o", "b", " ", "a", "p", "p", "l", "i", "c", "a", "t", "i", "o", "n">>}

JobUrl == <<"h", "t", "t", "p", "s", ":", "/", "/", "e", "x", "a", "m", "p", "l", "e", ".", "c", "o", "m", "/", "j", "o", "b", "s", "/", "4", "2">>

\* the names of the two inputs: no job field; one named after a job field;
\* two the taxonomy knows but no job field keyword names; two job fields
FieldNamings ==
    {<<AnonymousName, AnonymousName>>, <<<<"e", "m", "a", "i", "l">>, AnonymousName>>,
     <<<<"f", "n", "a", "m", "e">>, <<"l", "n", "a", "m", "e">>>>, <<<<"e", "m", "a", "i", "l">>, <<"p", "h", "o", "n", "e">>>>}

ScoringDocuments ==
    {[Document(2, 1, 0, [i \in 1..1 |-> NarrowGap], 2, EmptyString, 0) EXCEPT
         !.url = url, !.formText = text,
         !.inputs[1].name = names[1], !.inputs[2].name = names[2]] :
        url \in {PageUrl, JobUrl}, text \in FormTexts, names \in FieldNamings}

ScoringInit ==
    /\ QuiescentSession
    /\ ComponentsIdle
    /\ page = <<>>
    /\ resolution = NoResolution
    /\ dropdown = NoDropdown
    /\ document \in ScoringDocuments
    /\ detection = NoDetection

ScoringSpec == ScoringInit /\ [][NextDiscovery]_vars

(***************************************************************************)
(* The popup's feedback: provideFeedback and its feedbackCache.  Every     *)
(* click on a feedback button starts an invocation; the invocations are    *)
(* suspended at their awaits and resumed in any order.                     *)
(***************************************************************************)
MaxFeedbackCalls == 2

FeedbackFieldIds == {<<"e", "m", "a", "i", "l">>, <<"p", "h", "o", "n", "e">>}

PredictedTypes == {<<"e", "m", "a", "i", "l">>}

\* `${fieldId}-${predictedType}`
FeedbackKey(fieldId, predictedType) == fieldId \o <<"-">> \o predictedType

FeedbackKeys ==
    {FeedbackKey(fieldId, predictedType) :
        fieldId \in FeedbackFieldIds, predictedType \in PredictedTypes}

FeedbackInit ==
    /\ QuiescentSession
    /\ document = NoDocument
    /\ detection = NoDetection
    /\ page = <<>>
    /\ resolution = NoResolution
    /\ dropdown = NoDropdown
    /\ textFill = NoTextFill
    /\ classified = NoClassified
    /\ popup = NoPopup
    /\ coordinator = NoCoordinator
    /\ feedback = [cache |-> {},
                   calls |-> <<>>,
                   posted |-> [key \in FeedbackKeys |-> 0],
                   recorded |-> [key \in FeedbackKeys |-> 0]]

FeedbackUnchanged ==
    UNCHANGED <<sessionVars, fill, retry, discoveryVars, resolverVars,
                selectVars, textFill, classified, popup, coordinator>>

\* provideFeedback(fieldId, predictedType, isCorrect) up to its first
\* await: it returns when the key is cached
ProvideFeedback(fieldId, predictedType, isCorrect) ==
    /\ Len(feedback.calls) < MaxFeedbackCalls
    /\ LET feedbackKey == FeedbackKey(fieldId, predictedType)
       IN  feedback' = [feedback EXCEPT
               !.calls = Append(@, [key |-> feedbackKey, isCorrect |-> isCorrect,
                                    pc |-> IF feedbackKey \in feedback.cache
                                           THEN "returned" ELSE "fields"])]
    /\ FeedbackUnchanged

\* fetch(`${this.backendUrl}/api/log-form-activity`, {method: 'POST', ...})
PostFeedback(fb, i) ==
    [fb EXCEPT !.calls[i].pc = "posting",
               !.posted[fb.calls[i].key] = @ + 1]

\* the tab and the agent's fields are there: without the field the call
\* fails; a confirmation is posted, a correction asks for the type first
FieldsAnswered(i, found) ==
    /\ i \in DOMAIN feedback.calls
    /\ feedback.calls[i].pc = "fields"
    /\ feedback' =
           IF ~found THEN [feedback EXCEPT !.calls[i].pc = "failed"]
           ELSE IF ~feedback.calls[i].isCorrect
           THEN [feedback EXCEPT !.calls[i].pc = "prompt"]
           ELSE PostFeedback(feedback, i)
    /\ FeedbackUnchanged

\* promptForCorrectType resolves: with a type, or with null on cancel
PromptAnswered(i, cancelled) ==
    /\ i \in DOMAIN feedback.calls
    /\ feedback.calls[i].pc = "prompt"
    /\ feedback' =
           IF cancelled THEN [feedback EXCEPT !.calls[i].pc = "returned"]
           ELSE PostFeedback(feedback, i)
    /\ FeedbackUnchanged

\* the backend has answered: response.ok caches the key, any other answer
\* and a rejected fetch end in the catch block
PostSettles(i, ok) ==
    /\ i \in DOMAIN feedback.calls
    /\ feedback.calls[i].pc = "posting"
    /\ feedback' =
           IF ok
           THEN [feedback EXCEPT !.calls[i].pc = "recorded",
                                 !.cache = @ \cup {feedback.calls[i].key},
                                 !.recorded[feedback.calls[i].key] = @ + 1]
           ELSE [feedback EXCEPT !.calls[i].pc = "failed"]
    /\ FeedbackUnchanged

NextFeedback ==
    \/ \E fieldId \in FeedbackFieldIds, predictedType \in PredictedTypes,
          isCorrect \in BOOLEAN :
           ProvideFeedback(fieldId, predictedType, isCorrect)
    \/ \E i \in 1..MaxFeedbackCalls, found \in BOOLEAN : FieldsAnswered(i, found)
    \/ \E i \in 1..MaxFeedbackCalls, cancelled \in BOOLEAN : PromptAnswered(i, cancelled)
    \/ \E i \in 1..MaxFeedbackCalls, ok \in BOOLEAN : PostSettles(i, ok)

FeedbackSpec == FeedbackInit /\ [][NextFeedback]_vars

(***************************************************************************)
(* The background script (background.js) and one tab: tabStatus, the       *)
(* 'contentScriptReady' and 'ping' messages of the page's agent, the       *)
(* tabs.onUpdated and tabs.onRemoved listeners and waitForContentScript.   *)
(* The browser loads the agent into every valid page; its registration     *)
(* and the tab's 'complete' event reach the background script in either    *)
(* order.                                                                  *)
(***************************************************************************)
MaxPageLoads == 2

MaxWaitTime == 3000

PollInterval == 100

NoTabStatus == [present |-> FALSE, ready |-> FALSE]

\* a handler of tabs.onUpdated that has not started
NoHandler == [pc |-> "none", elapsed |-> 0]

\* the tab shows its first page, which is still loading
CoordinatorInit ==
    /\ QuiescentSession
    /\ document = NoDocument
    /\ detection = NoDetection
    /\ page = <<>>
    /\ resolution = NoResolution
    /\ dropdown = NoDropdown
    /\ textFill = NoTextFill
    /\ classified = NoClassified
    /\ popup = NoPopup
    /\ feedback = NoFeedback
    /\ coordinator \in [open : {TRUE},
                        load : {1},
                        validUrl : BOOLEAN,
                        completePending : {TRUE},
                        agentRegistered : {FALSE},
                        tabStatus : {NoTabStatus},
                        handlers : {[h \in 1..MaxPageLoads |-> NoHandler]},
                        reinjections : {0}]

CoordinatorUnchanged ==
    UNCHANGED <<sessionVars, fill, retry, discoveryVars, resolverVars,
                selectVars, textFill, classified, popup, feedback>>

\* isValidUrl(tab.url)
IsValidUrl(c) == c.validUrl

\* the tab navigates: the page and its agent are gone, a new page loads
Navigate(validUrl) ==
    /\ coordinator.open
    /\ coordinator.load < MaxPageLoads
    /\ coordinator' = [coordinator EXCEPT !.load = @ + 1,
                                          !.validUrl = validUrl,
                                          !.completePending = TRUE,
                                          !.agentRegistered = FALSE]
    /\ CoordinatorUnchanged

\* case 'contentScriptReady': the agent of the page registers
ContentScriptReady ==
    /\ coordinator.open
    /\ IsValidUrl(coordinator)
    /\ ~coordinator.agentRegistered
    /\ coordinator' = [coordinator EXCEPT
                          !.agentRegistered = TRUE,
                          !.tabStatus = [present |-> TRUE, ready |-> TRUE]]
    /\ CoordinatorUnchanged

\* case 'ping': status = tabStatus.get(id) || {}; only lastPing is written
Ping ==
    /\ coordinator.open
    /\ coordinator.agentRegistered
    /\ coordinator' = [coordinator EXCEPT !.tabStatus.present = TRUE]
    /\ CoordinatorUnchanged

\* tabs.onUpdated with status 'complete': for a valid url the status of
\* the tab is deleted and the listener starts to wait for the agent
TabUpdatedComplete ==
    /\ coordinator.open
    /\ coordinator.completePending
    /\ coordinator' =
           IF IsValidUrl(coordinator)
           THEN [coordinator EXCEPT
                    !.completePending = FALSE,
                    !.tabStatus = NoTabStatus,
                    !.handlers[coordinator.load] = [pc |-> "waiting", elapsed |-> 0]]
           ELSE [coordinator EXCEPT !.completePending = FALSE]
    /\ CoordinatorUnchanged

\* waitForContentScript, one turn of the loop: it returns when the status
\* is ready and sleeps 100 ms otherwise
WaitPoll(h) ==
    /\ coordinator.handlers[h].pc = "waiting"
    /\ coordinator.handlers[h].elapsed < MaxWaitTime
    /\ coordinator' =
           IF coordinator.tabStatus.present /\ coordinator.tabStatus.ready
           THEN [coordinator EXCEPT !.handlers[h].pc = "detect"]
           ELSE [coordinator EXCEPT !.handlers[h].elapsed = @ + PollInterval]
    /\ CoordinatorUnchanged

\* waitForContentScript after maxWaitTime: executeScript of content.js into
\* the tab, which fails when the tab is gone; in a page that has an agent
\* the injected script starts no second one
WaitTimeout(h) ==
    /\ coordinator.handlers[h].pc = "waiting"
    /\ coordinator.handlers[h].elapsed >= MaxWaitTime
    /\ coordinator' =
           IF ~coordinator.open
           THEN [coordinator EXCEPT !.handlers[h].pc = "detect"]
           ELSE [coordinator EXCEPT
                    !.handlers[h].pc = "detect",
                    !.reinjections =
                        IF coordinator.agentRegistered THEN @ + 1 ELSE @]
    /\ CoordinatorUnchanged

\* sendMessageWithRetry(tabId, {action: 'detectForms'}) has settled and the
\* badge is updated
DetectFormsSettles(h) ==
    /\ coordinator.handlers[h].pc = "detect"
    /\ coordinator' = [coordinator EXCEPT !.handlers[h].pc = "done"]
    /\ CoordinatorUnchanged

\* tabs.onRemoved
TabRemoved ==
    /\ coordinator.open
    /\ coordinator' = [coordinator EXCEPT !.open = FALSE,
                                          !.completePending = FALSE,
                                          !.agentRegistered = FALSE,
                                          !.tabStatus = NoTabStatus]
    /\ CoordinatorUnchanged

NextCoordinator ==
    \/ \E validUrl \in BOOLEAN : Navigate(validUrl)
    \/ ContentScriptReady
    \/ Ping
    \/ TabUpdatedComplete
    \/ \E h \in 1..MaxPageLoads : WaitPoll(h)
    \/ \E h \in 1..MaxPageLoads : WaitTimeout(h)
    \/ \E h \in 1..MaxPageLoads : DetectFormsSettles(h)
    \/ TabRemoved

CoordinatorSpec == CoordinatorInit /\ [][NextCoordinator]_vars

(***************************************************************************)
(* Session claims.                                                         *)
(***************************************************************************)
HandlerCalled == invalidationCalls' > invalidationCalls

\* C1: the session enters Invalidated exactly once.  The first call of
\* handleContextInvalidation performs the transition and its teardown (flag
\* set, observer disconnected, ping interval cleared, notice shown); every
\* call made in a state that is already Invalidated changes neither the
\* agent nor the document, and the flag, once set, stays set.
C1_InvalidatedExactlyOnce ==
    [][/\ (HandlerCalled /\ ~agent.contextInvalidated) =>
            /\ agent'.contextInvalidated
            /\ ~agent'.isInitialized
            /\ agent'.mutationObserver # "observing"
            /\ agent'.pingInterval # "active"
            /\ dom'.contextError
       /\ (HandlerCalled /\ agent.contextInvalidated) =>
            /\ agent' = agent
            /\ dom' = dom
       /\ (agent'.contextInvalidated /\ ~agent.contextInvalidated) =>
            HandlerCalled
       /\ agent.contextInvalidated => agent'.contextInvalidated]_vars

\* the handler was called again after the transition, the notice of the
\* first call being gone already
C1_Witness ==
    /\ agent.contextInvalidated
    /\ invalidationCalls >= 2
    /\ ~dom.contextError

\* C2: Invalidated is terminal: once contextInvalidated is true it stays
\* true and isInitialized is never true in a state at or after the
\* transition.
C2_InvalidatedTerminal ==
    [][agent.contextInvalidated =>
          (agent'.contextInvalidated /\ ~agent'.isInitialized)]_vars

\* C3: no liveness ping is sent in a step that starts or ends in the
\* Invalidated state.
C3_NoPingAfterInvalidated ==
    [][(agent.contextInvalidated \/ agent'.contextInvalidated) =>
          pingInFlight' <= pingInFlight]_vars

\* an Invalidated session whose interval is (again) installed, on a live
\* runtime and a visible page: only the flag keeps the tick from pinging
C3_Witness ==
    /\ agent.contextInvalidated
    /\ agent.pingInterval = "active"
    /\ agent.isInitialized
    /\ runtimeAlive
    /\ dom.visible

\* C4: in every state where the session is Invalidated the mutation
\* observer is detached.
C4_ObserverDetachedWhenInvalidated ==
    agent.contextInvalidated => agent.mutationObserver # "observing"

\* C7: at any moment at most one mutation-triggered re-detection is pending.
C7_AtMostOneRedetectPending == redetectTimers <= 1

\* C30: a detection pass does not trigger a detection pass. No step that
\* leaves the host page's elements as they are adds a pending re-detection,
\* although the pass adds its indicator under the attached observer; and
\* once the host page stops changing the pending re-detections run out for
\* good, so that the passes are finitely many.
C30_DetectionDoesNotRetriggerItself ==
    /\ [][dom'.elems = dom.elems => redetectTimers' <= redetectTimers]_vars
    /\ <>[](redetectTimers = 0)

\* the attached observer was handed the indicator of a pass and no
\* re-detection is pending
C30_Witness ==
    /\ agent.mutationObserver = "observing"
    /\ dom.observed = {IndicatorNode}
    /\ dom.indicator
    /\ redetectTimers = 0

\* C8 (as stated): no ping is sent at a tick where the page is not visible,
\* on every kind of page.
C8_NoPingWhileHidden ==
    [][pingInFlight' > pingInFlight => dom.visible]_vars

\* C8 (amended): on a known-hostile host or in an embedded frame no ping is
\* sent at a tick where the page is not visible.
C8_NoPingWhileHiddenOnHostilePage ==
    [][(pingInFlight' > pingInFlight /\ isGreenhouseOrIframe) =>
          dom.visible]_vars

\* a hidden hostile page with a running keep-alive that has pinged before
C8_Witness ==
    /\ isGreenhouseOrIframe
    /\ ~dom.visible
    /\ agent.pingInterval = "active"
    /\ agent.isInitialized
    /\ ~agent.contextInvalidated
    /\ runtimeAlive
    /\ pingInFlight > 0

\* C9: only a terminal-class failure moves the session to Invalidated.  The
\* terminal class is the set of host-runtime teardown messages; a ping or
\* error event with any other message leaves agent and document as they are.
TeardownMessages == {ErrContextInvalidated, ErrNoReceiver, ErrPortClosed}

C9_OnlyTerminalFailureInvalidates ==
    [][/\ (agent'.contextInvalidated /\ ~agent.contextInvalidated) =>
            lastError'.message \in TeardownMessages
       /\ (pingInFlight' < pingInFlight /\ lastError'.message \notin TeardownMessages) =>
            (agent' = agent /\ dom' = dom)]_vars

\* a ping has failed with a retryable error and the session is still Active
\* with keep-alive and observer running
C9_Witness ==
    /\ lastError = [source |-> "ping", message |-> ErrTimeout]
    /\ agent.isInitialized
    /\ ~agent.contextInvalidated
    /\ agent.pingInterval = "active"
    /\ agent.mutationObserver = "observing"

(***************************************************************************)
(* Fill pass claims.                                                       *)
(***************************************************************************)
\* C10: every write of a fill pass goes to the element that the field's
\* selector resolves to in the live document at the time of the write.
C10_WritesGoThroughSelector ==
    [][(fill.pc = "delay" /\ fill'.pc = "next") =>
          fill'.written = dom.elems[fill'.writtenField]]_vars

\* C11: results of different passes are never merged: a fill pass that is
\* suspended while a detection pass rebuilds the field map goes on writing
\* and counting the fields of the field map it started with.
C11_PassKeepsItsFieldMap ==
    [][fill.pc \in {"next", "delay"} => fill'.fields = fill.fields]_vars

\* the pass is at the loop head with a field of its field map to visit
AtField == fill.pc = "next" /\ fill.index <= Len(FieldOrder)

\* the pass takes its step for that field
VisitsField == AtField /\ (fill'.pc = "delay" \/ fill'.index = fill.index + 1)

\* C22: a fill pass counts every field of the field map in totalFields; a
\* field for which no value resolves is not written and not counted in
\* filledFields; filledFields never exceeds totalFields, and the outcome of
\* a pass with no field has accuracy 0.
C22_UnresolvedFieldsCountOnlyInTotal ==
    [][/\ VisitsField => fill'.totalFields = fill.totalFields + 1
       /\ (VisitsField /\ FieldOrder[fill.index] \notin fill.formData) =>
             /\ fill'.pc = "next"
             /\ fill'.filledFields = fill.filledFields
             /\ dom' = dom
       /\ fill'.filledFields <= fill'.totalFields
       /\ fill'.pc = "done" =>
             /\ fill'.outcome.filledFields <= fill'.outcome.totalFields
             /\ fill'.outcome.totalFields = 0 => fill'.outcome.accuracy = 0]_vars

\* a pass over two fields of which only the second has a value
C22_Witness ==
    /\ fill.pc = "done"
    /\ fill.formData = {"email"}
    /\ fill.outcome.totalFields = 2
    /\ fill.outcome.filledFields = 1
    /\ fill.outcome.accuracy = 50
    /\ dom.filled = {"email"}

\* C23: telemetry never blocks or fails the pass: a pass that has reached
\* the report of its counts returns its outcome whether the endpoint
\* answers, rejects or never answers, and a rejected report leaves the
\* outcome a success.
C23_TelemetryNeverBlocksThePass ==
    /\ (fill.pc = "logging") ~> (fill.pc = "done")
    /\ [](fill.telemetry = "rejected" => fill.outcome.success)

\* C26: a write failure is isolated to its field: when the writer throws,
\* the pass goes on with the next field, nothing is written, and the pass
\* still returns an outcome, not an error.
C26_WriteFailureIsolated ==
    [][/\ (fill.pc = "delay" /\ fill'.threw # fill.threw) =>
             /\ fill'.pc = "next"
             /\ fill'.index = fill.index + 1
             /\ dom' = dom
       /\ fill'.pc = "done" => fill'.outcome.kind = "outcome"]_vars

\* the writer threw for the first field; the second was written after it
\* and the pass returned its outcome
C26_Witness ==
    /\ fill.pc = "done"
    /\ fill.threw = {"firstName"}
    /\ fill.writtenField = "email"
    /\ "email" \in dom.filled
    /\ "firstName" \notin dom.filled
    /\ fill.outcome.kind = "outcome"
    /\ fill.outcome.totalFields = 2

(***************************************************************************)
(* Retry claims.                                                           *)
(***************************************************************************)
RetryAfterFailure == retry'.pc = "sending" /\ retry.pc # "sending" /\ retry.pc # "idle"

LinearWait(k) == {500 * k, 500 * k + 500}

AttemptsBounded ==
    /\ retry'.attempts <= retry'.maxRetries
    /\ retry.pc \in {"returned", "thrown"} => retry' = retry
    /\ retry'.pc = "returned" =>
          (retry.pc = "sending" /\ retry'.attempts = retry.attempts + 1)

\* C5 (as stated): at most maxRetries attempts, every retry preceded by a
\* wait that grows linearly with the number of failed attempts, the first
\* success returned at once, and after maxRetries failed attempts the last
\* error is raised.
C5_BoundedLinearRetry ==
    [][/\ AttemptsBounded
       /\ RetryAfterFailure => retry'.lastWait \in LinearWait(retry'.i)
       /\ (retry'.pc = "thrown" /\ retry'.attempts = retry'.maxRetries) =>
             retry'.thrown = retry'.lastError]_vars

\* C5 (amended): as stated, except that the popup starts the next attempt
\* without a wait after a failed re-injection, and raises its own
\* 'Cannot access' error when the re-injection is refused for that reason.
C5_BoundedRetryPopupExceptions ==
    [][/\ AttemptsBounded
       /\ RetryAfterFailure =>
             \/ retry'.lastWait \in LinearWait(retry'.i)
             \/ /\ retry.caller = "popup" /\ retry.pc = "injecting"
                /\ retry'.lastWait = 0
       /\ (retry'.pc = "thrown" /\ retry'.attempts = retry'.maxRetries) =>
             \/ retry'.thrown = retry'.lastError
             \/ /\ retry.caller = "popup" /\ retry.pc = "injecting"
                /\ retry'.thrown = ErrCannotAccess]_vars

\* the default three attempts have all failed, the last wait was the
\* longest, and the last error is raised
C5_Witness ==
    /\ retry.pc = "thrown"
    /\ retry.maxRetries = DefaultMaxRetries
    /\ retry.attempts = DefaultMaxRetries
    /\ retry.lastWait = 1500
    /\ retry.thrown = retry.lastError

\* C6: a failed attempt is followed by a re-injection of the content script
\* if and only if its error is of the channel-severed class (no agent can be
\* reached in the tab); nothing else re-injects.
ChannelSeveredMessages == {ErrContextInvalidated, ErrNoReceiver}

C6_ReinjectIffChannelSevered ==
    [][/\ (retry'.attempts > retry.attempts /\ retry'.pc # "returned") =>
             (retry'.injections > retry.injections
                <=> retry'.lastError \in ChannelSeveredMessages)
       /\ retry'.injections > retry.injections =>
             retry'.attempts > retry.attempts]_vars

\* one attempt failed with a severed channel and was re-injected, another
\* failed with a transient error and was only waited for
C6_Witness ==
    /\ retry.attempts = 2
    /\ retry.injections = 1
    /\ retry.lastError = ErrTimeout
    /\ retry.pc = "waiting"

(***************************************************************************)
(* Discovery claims.                                                       *)
(***************************************************************************)
\* C12: after a detection pass every input control belongs to at most one
\* group of this.forms, be it a form, a container or a virtual cluster.
C12_InputInAtMostOneGroup ==
    detection.passes > 0 =>
        \A k, l \in DOMAIN detection.forms :
            k # l => Range(detection.forms[k].inputs) \cap
                     Range(detection.forms[l].inputs) = {}

\* the groups of a detection with their inputs and field maps, whatever
\* their order and keys
GroupsOf(det) ==
    {[isVirtual |-> det.forms[k].isVirtual,
      inputs |-> Range(det.forms[k].inputs),
      fields |-> det.formFields[k]] : k \in DOMAIN det.forms}

\* C13: discovery is idempotent: a pass that scans the document again with
\* no mutation since the pass before, the indicator of that pass included,
\* yields the same groups with the same inputs and fields.
C13_DiscoveryIdempotent ==
    [][(/\ detection.passes > 0
        /\ ~detection.mutated
        /\ detection'.passes = detection.passes + 1)
           => GroupsOf(detection') = GroupsOf(detection)]_vars

C13_Witness ==
    /\ detection.rescanned
    /\ document.indicator
    /\ \E k \in DOMAIN detection.forms : ~detection.forms[k].isVirtual
    /\ \E k \in DOMAIN detection.forms : detection.forms[k].isVirtual

WithinDistance(doc, i, j, distance) ==
    (doc.inputs[i].x - doc.inputs[j].x) * (doc.inputs[i].x - doc.inputs[j].x) +
    (doc.inputs[i].y - doc.inputs[j].y) * (doc.inputs[i].y - doc.inputs[j].y)
        <= distance * distance

\* Scenario C: five inputs within 150 px of each other, outside any form
\* or container, named fname, lname, email, resume, cover_letter
ScenarioC(doc) ==
    /\ ~doc.hasForm
    /\ ~doc.hasContainer
    /\ [i \in DOMAIN doc.inputs |-> doc.inputs[i].name] =
           <<<<"f", "n", "a", "m", "e">>, <<"l", "n", "a", "m", "e">>, <<"e", "m", "a", "i", "l">>, <<"r", "e", "s", "u", "m", "e">>, <<"c", "o", "v", "e", "r", "_", "l", "e", "t", "t", "e", "r">>>>
    /\ \A i, j \in DOMAIN doc.inputs : WithinDistance(doc, i, j, 150)

\* C14: a virtual group is a proximity cluster (every member after the
\* first is within 200 px of an earlier one and no input outside is within
\* 200 px of a member) of at least 3 inputs of which at least 60% classify;
\* the document of Scenario C yields exactly one group, virtual, of its
\* five inputs.
C14_VirtualGroupsAreJobClusters ==
    detection.passes > 0 /\ ~detection.mutated =>
        /\ \A g \in DOMAIN detection.forms :
               LET cluster == detection.forms[g].inputs
               IN detection.forms[g].isVirtual =>
                   /\ Len(cluster) >= 3
                   /\ 10 * Cardinality({k \in DOMAIN cluster :
                            Classifies(document.inputs[cluster[k]])})
                          >= 6 * Len(cluster)
                   /\ \A k \in 2..Len(cluster) : \E m \in 1..(k - 1) :
                          WithinDistance(document, cluster[k], cluster[m], 200)
                   /\ \A i \in DOMAIN document.inputs : \A k \in DOMAIN cluster :
                          WithinDistance(document, i, cluster[k], 200)
                              => i \in Range(cluster)
        /\ ScenarioC(document) =>
               /\ Len(detection.forms) = 1
               /\ detection.forms[1].isVirtual
               /\ Range(detection.forms[1].inputs) = 1..5

C14_Witness ==
    /\ detection.passes > 0
    /\ ~detection.mutated
    /\ ScenarioC(document)
    /\ Len(detection.forms) = 1

\* Scenario A: one form with the fields first_name and email
ScenarioA(doc) ==
    /\ doc.hasForm
    /\ [i \in DOMAIN doc.inputs |-> doc.inputs[i].name] =
           <<<<"f", "i", "r", "s", "t", "_", "n", "a", "m", "e">>, <<"e", "m", "a", "i", "l">>>>
    /\ \A i \in DOMAIN doc.inputs : doc.inputs[i].inForm

IsMappedAs(fields, input, category, type) ==
    \E f \in fields :
        /\ f.element = input
        /\ f.category = category
        /\ f.type = type
        /\ f.confidence.num = f.confidence.den

\* C16: in the form of Scenario A the field first_name is classified
\* {personalInfo, firstName, 1.0} and the field email {personalInfo, email,
\* 1.0}.
C16_ScenarioAClassification ==
    detection.passes > 0 /\ ~detection.mutated /\ ScenarioA(document) =>
        \E k \in DOMAIN detection.forms :
            /\ detection.forms[k].element = "form"
            /\ IsMappedAs(detection.formFields[k], 1, "personalInfo", "firstName")
            /\ IsMappedAs(detection.formFields[k], 2, "personalInfo", "email")

(***************************************************************************)
(* Selector resolver claims.                                               *)
(***************************************************************************)
\* C17: the selector getElementSelector returns for an element matches, on
\* the unchanged tree, exactly one element, the element itself, whatever
\* strategy of the chain produced it.
C17_SelectorResolvesToElement ==
    resolution.element # 0 => resolution.matches = {resolution.element}

StartsWithDigit(id) == id # <<>> /\ id[1] \in Digits

NextStrategies == {"name", "data", "class", "type+placeholder", "path"}

\* C18: for an element whose id starts with a digit the selector is not
\* id-based: it comes from a later strategy of the chain and none of its
\* compounds, those of the structural path included, uses that id.
C18_DigitIdNeverSelected ==
    (resolution.element # 0 /\ StartsWithDigit(page[resolution.element].id)) =>
        /\ resolution.strategy \in NextStrategies
        /\ \A k \in DOMAIN resolution.selector :
               resolution.selector[k].id # page[resolution.element].id

C18_Witness ==
    /\ resolution.element # 0
    /\ StartsWithDigit(page[resolution.element].id)
    /\ resolution.strategy = "path"
    /\ \A e \in DOMAIN page :
           e # resolution.element => page[e].id # page[resolution.element].id

(***************************************************************************)
(* Select filling claims.                                                  *)
(***************************************************************************)
OnlyDemographicCategories(element) ==
    \A i \in ValidOptions(element) :
        element.options[i].text \in Range(DemographicCategories)

\* C19: a select whose options are all demographic categories never
\* receives a personal name (of one word or more) or an email: the fill is
\* skipped by shouldSkipDropdownFill and the selected option stays the same.
C19_DemographicSelectRejectsPersonalData ==
    [][(/\ dropdown.pc = "idle"
        /\ dropdown'.pc = "done"
        /\ OnlyDemographicCategories(dropdown.element)
        /\ dropdown.value \in PersonalNames \cup EmailValues)
           => /\ dropdown'.skipped
              /\ dropdown'.element.selectedIndex = dropdown.element.selectedIndex]_vars

\* C20: filling the select of Scenario B (options Bachelor's, Master's,
\* PhD) with "Master of Computer Science" selects the option Master's.
C20_ScenarioBSelectsMasters ==
    (/\ dropdown.pc = "done"
     /\ [i \in DOMAIN dropdown.element.options |-> dropdown.element.options[i].text]
            = DegreeLevels
     /\ dropdown.value = <<"M", "a", "s", "t", "e", "r", " ", "o", "f", " ", "C", "o", "m", "p", "u", "t", "e", "r", " ", "S", "c", "i", "e", "n", "c", "e">>)
        => dropdown.element.options[dropdown.element.selectedIndex].text = <<"M", "a", "s", "t", "e", "r", "'", "s">>

(***************************************************************************)
(* Text writer claims.                                                     *)
(***************************************************************************)
OtherControlsAsBefore(before, after, element) ==
    \A c \in DOMAIN before : c # element => after[c] = before[c]

\* C21: no step of a text fill changes a control other than its target or
\* the agent's field map; and when the target already held the value at the
\* call, every other control and the field map are after the fill as they
\* were at the call.
C21_TextFillTouchesOnlyItsTarget ==
    /\ [][/\ OtherControlsAsBefore(textFill.controls, textFill'.controls,
                                   textFill'.element)
          /\ textFill'.formFields = textFill.formFields]_vars
    /\ [](textFill.pc = "done" /\ textFill.calls > 0
             /\ textFill.atCall[textFill.element].value = textFill.value
          => /\ OtherControlsAsBefore(textFill.atCall, textFill.controls,
                                      textFill.element)
             /\ textFill.formFields = [firstName |-> 1, city |-> 2])

\* the first name field, already holding "Ann", was written again with
\* "Ann" beside a ticked checkbox, and the page is as it was at the call
C21_Witness ==
    /\ textFill.pc = "done"
    /\ textFill.calls = 2
    /\ textFill.element = 1
    /\ textFill.value = <<"A", "n", "n">>
    /\ textFill.atCall[1].value = <<"A", "n", "n">>
    /\ textFill.controls = textFill.atCall
    /\ textFill.controls[3].checked

PatternMatches(text, pattern) ==
    \/ StringIncludes(text, pattern)
    \/ \E w \in Split(text, WordSeparators) :
           Len(w) > 2 /\ w \in Split(pattern, WordSeparators)
    \/ RatioGreater(CalculateSimilarity(text, pattern), Ratio(7, 10))

MatchingEntries(text) ==
    {k \in DOMAIN FieldPatterns :
        \E p \in DOMAIN FieldPatterns[k].patterns :
            PatternMatches(text, FieldPatterns[k].patterns[p])}

\* C25: identifyField returns the category and type of the first entry of
\* the taxonomy, in declaration order, one of whose patterns matches the
\* haystack, whatever later entries match too; when no entry matches it
\* returns {null, null, 0}.
C25_IdentifyFieldIsFirstMatch ==
    classified.pc = "done" =>
        LET matching == MatchingEntries(AllText(classified.input))
        IN  IF matching = {}
            THEN classified.result = NoClassification
            ELSE \E k \in matching :
                    /\ \A j \in matching : k <= j
                    /\ classified.result.category = FieldPatterns[k].category
                    /\ classified.result.type = FieldPatterns[k].type

\* first_name is classified by the entry fullName, the first that matches,
\* although the later entry firstName matches as well
C25_Witness ==
    /\ classified.pc = "done"
    /\ classified.input.name = <<"f", "i", "r", "s", "t", "_", "n", "a", "m", "e">>
    /\ classified.input.label = EmptyString
    /\ classified.result.type = "fullName"
    /\ \E k \in DOMAIN FieldPatterns :
           /\ FieldPatterns[k].type = "firstName"
           /\ StringIncludes(AllText(classified.input), <<"f", "i", "r", "s", "t", "_", "n", "a", "m", "e">>)
           /\ \E p \in DOMAIN FieldPatterns[k].patterns :
                  FieldPatterns[k].patterns[p] = <<"f", "i", "r", "s", "t", "_", "n", "a", "m", "e">>

(***************************************************************************)
(* Form scoring claims.                                                    *)
(***************************************************************************)
\* the indicators the form of a document shows
Indicators(doc) ==
    LET text == ToLowerCase(doc.formText \o <<" ">> \o doc.formClass \o <<" ">>
                            \o <<" ">> \o doc.formAction)
    IN  {ind \in {"strong", "medium", "url", "jobField", "density"} :
            \/ ind = "strong" /\ SomeIncluded(text, StrongJobIndicators)
            \/ ind = "medium" /\ SomeIncluded(text, MediumJobIndicators)
            \/ ind = "url" /\ SomeIncluded(ToLowerCase(doc.url), JobUrlKeywords)
            \/ ind = "jobField" /\ HasJobFormFields(doc, "form")
            \/ ind = "density" /\
                   2 * Cardinality({i \in InputsOf(doc, "form") :
                                       IdentifyField(doc.inputs[i]).category # "null"})
                       > Cardinality(InputsOf(doc, "form"))}

\* the weights of the claim, in tenths
Weight(ind) ==
    IF ind = "strong" THEN 6 ELSE IF ind = "jobField" THEN 3 ELSE 2

RECURSIVE SumOfWeights(_)
SumOfWeights(inds) ==
    IF inds = {} THEN 0
    ELSE LET ind == CHOOSE ind \in inds : TRUE
         IN  Weight(ind) + SumOfWeights(inds \ {ind})

FormQualified == \E k \in DOMAIN detection.forms : detection.forms[k].element = "form"

\* C27: after a pass the form is among the detected groups exactly when
\* the weights of its indicators (strong 0.6, medium 0.2, URL 0.2, job
\* field 0.3, density above 0.5 0.2) add up to more than 0.3: with a strong
\* indicator or with any two indicators it is, with no indicator or with
\* one that is not the strong one it is not.
C27_FormQualifiesAboveThreshold ==
    detection.passes > 0 /\ ~detection.mutated /\ document.hasForm
        /\ document.formClass = EmptyString =>
        LET inds == Indicators(document)
        IN  /\ FormQualified <=> SumOfWeights(inds) > 3
            /\ "strong" \in inds => FormQualified
            /\ Cardinality(inds) >= 2 => FormQualified
            /\ Cardinality(inds) <= 1 /\ "strong" \notin inds => ~FormQualified

\* a form whose only indicator is a field named after a job field scores
\* exactly 0.3 and is not detected
C27_Witness ==
    /\ detection.passes > 0
    /\ ~detection.mutated
    /\ Indicators(document) = {"jobField"}
    /\ ~FormQualified

(***************************************************************************)
(* Feedback claims.                                                        *)
(***************************************************************************)
\* C28: for every feedback key the backend records at most one feedback
\* sent by the popup, however the invocations of provideFeedback overlap.
C28_AtMostOneFeedbackPerKey ==
    \A key \in FeedbackKeys : feedback.recorded[key] <= 1

(***************************************************************************)
(* Coordinator claims.                                                     *)
(***************************************************************************)
\* C29: while the agent of the page loaded in the tab is registered the
\* tab's status is ready, and the coordinator never injects the agent's
\* script into a page whose agent is registered.
C29_RegisteredAgentKeepsTabReady ==
    /\ coordinator.agentRegistered =>
           coordinator.tabStatus.present /\ coordinator.tabStatus.ready
    /\ coordinator.reinjections = 0

====
